---- MODULE Spec2Model ----
(***************************************************************************)
(* The Windows event loop of tao (platform_impl/windows/event_loop.rs):    *)
(* run_return's message loop, the window and thread-target subclass        *)
(* callbacks, flush_paint_messages, process_control_flow and wait_thread.  *)
(* The EventLoopRunner (mod runner) is modelled from the specification.    *)
(*                                                                         *)
(* Instants are counted in clock ticks, timeouts in milliseconds.  A       *)
(* native handler runs to completion in one step of the main thread; the  *)
(* wait thread and the operating system interleave between the handlers.  *)
(*                                                                         *)
(* The process-wide X11 connection of the Linux backend                    *)
(* (platform_impl/linux/x11.rs, platform/unix.rs) is a second component    *)
(* with its own variables and its own specification, X11Spec.              *)
(***************************************************************************)
EXTENDS Integers, Sequences, FiniteSets, TLC

\* -------------------------------------------------------------- bounds
NumWindows == 2      \* windows the application may create
MaxTime == 3         \* the clock stops at this instant (clock ticks)
TicksPerMs == 2      \* resolution of Instant: clock ticks in a millisecond
MaxQueue == 1        \* messages the operating system keeps posted at once
MaxWtQueue == 1      \* messages waiting in the wait thread's queue
MaxInv == 3          \* callback invocations of one handler that may act
MonitorWidth == 6    \* the monitors' width and height, in pixels
MonitorHeight == 4
MaxDepth == 3        \* invocations of the window callback in flight
MaxBuffered == 2     \* messages handled before run_return is entered
NumProxies == 2      \* threads that hold an EventLoopProxy
NumUserEvents == 2   \* values of the user event
MaxUserEvents == 3   \* calls of EventLoopProxy::send_event
MaxBoxes == 3        \* wake-at requests made
NumCallers == 2      \* threads other than the loop's that call execute_in_thread
MaxCalls == 2        \* calls of execute_in_thread by one thread
MaxBoxQueue == 2     \* messages waiting in the wait thread's queue while boxes are followed
NumComponents == 2   \* components that hold references to X11 connections
MaxConnections == 2  \* displays opened in the life of the process
NumErrorCodes == 2   \* distinct X error codes
MaxErrors == 2       \* X errors raised between two polls of the error slot
NumXThreads == 3     \* threads that run X11 operations side by side
MaxKeyEvents == 2    \* key events the key event builder makes of one message
NumPositions == 2    \* distinct cursor positions
MaxCapture == 2      \* mouse buttons held down at once
PressureMargin == 1  \* raw pressures tried on each side of the ends of the scale
MaxRawPressure == 65535  \* the largest raw pressure tried

thread_msg_target == 0
Windows == 1..NumWindows
Instants == 0..MaxTime

\* ControlFlow
Poll == [kind |-> "Poll", until |-> 0]
Wait == [kind |-> "Wait", until |-> 0]
Exit == [kind |-> "Exit", until |-> 0]
WaitUntil(t) == [kind |-> "WaitUntil", until |-> t]
Deadlines == {1, MaxTime}
ControlFlow == {Poll, Wait, Exit} \cup {WaitUntil(t) : t \in Deadlines}

\* Event
EvData(type, window, data) == [type |-> type, window |-> window, data |-> data]
Ev(type, window) == [type |-> type, window |-> window, data |-> 0]
NewEvents == Ev("NewEvents", 0)
MainEventsCleared == Ev("MainEventsCleared", 0)
RedrawEventsCleared == Ev("RedrawEventsCleared", 0)
LoopDestroyed == Ev("LoopDestroyed", 0)
GlobalShortcutEvent == Ev("GlobalShortcutEvent", 0)
CloseRequested(w) == Ev("CloseRequested", w)
\* PhysicalSize, and the place it takes in an event.
Size(width, height) == [width |-> width, height |-> height]
SizeData(size) == size.width * 65536 + size.height
\* WindowEvent::ScaleFactorChanged { scale_factor, new_inner_size }
ScaleFactorChanged(w, size) == EvData("ScaleFactorChanged", w, SizeData(size))
Destroyed(w) == Ev("Destroyed", w)
UserEvent(event) == EvData("UserEvent", 0, event)
RedrawRequested(w) == Ev("RedrawRequested", w)
ModifiersChanged(w, modifiers) == EvData("ModifiersChanged", w, modifiers)
KeyboardInput(w, i) == EvData("KeyboardInput", w, i)
CursorEntered(w) == Ev("CursorEntered", w)
CursorMoved(w, position) == EvData("CursorMoved", w, position)
CursorLeft(w) == Ev("CursorLeft", w)
MouseInput(w, pressed) == EvData("MouseInput", w, pressed)
Focused(w, focused) == EvData("Focused", w, IF focused THEN 1 ELSE 0)
\* Force::Normalized(num / den); an Option is a sequence of at most one value.
Normalized(num, den) == [num |-> num, den |-> den]
PressureScale == 1024
\* Touch carries its force in units of 1 / PressureScale, -1 for none (its
\* phase, location and id are left out).
ForceData(force) ==
  IF force = <<>> THEN -1 ELSE (force[1].num * PressureScale) \div force[1].den
Touch(w, force) == EvData("Touch", w, ForceData(force))
\* KeyCode, as far as raw keyboard input tells the codes apart; a code is
\* carried in an event as its place in this list.
KeyCodes ==
  <<"Unidentified", "NumLock", "Pause", "ControlLeft", "ShiftLeft", "NumpadMultiply",
    "PrintScreen", "KeyA", "Numpad0", "NumpadDecimal">>
KeyCodeId(code) == CHOOSE i \in 1..Len(KeyCodes) : KeyCodes[i] = code
\* ElementState
Pressed == 1
Released == 0
\* DeviceEvent::Key(RawKeyEvent { physical_key, state }); the event's second
\* field carries the physical key.
Key(physical_key, state) == EvData("Key", KeyCodeId(physical_key), state)
\* The events of the main part of a cycle.
WindowEvents ==
  {"CloseRequested", "GlobalShortcutEvent", "ModifiersChanged", "KeyboardInput",
   "CursorEntered", "CursorMoved", "CursorLeft", "MouseInput", "Touch", "Key",
   "Destroyed", "ScaleFactorChanged", "UserEvent", "Focused"}

\* The messages of keyboard and mouse input, and what the system knows when
\* one is handled: the modifier keys held, the key events the key event
\* builder makes of the message, the cursor position, lparam.
KeyMessages == {"WM_KEYDOWN", "WM_SYSKEYDOWN", "WM_KEYUP", "WM_SYSKEYUP"}
ButtonDown == {"WM_LBUTTONDOWN", "WM_RBUTTONDOWN"}
ButtonUp == {"WM_LBUTTONUP", "WM_RBUTTONUP"}
PointerMessages == {"WM_POINTERDOWN", "WM_POINTERUPDATE", "WM_POINTERUP"}
InputMessages ==
  KeyMessages \cup ButtonDown \cup ButtonUp \cup PointerMessages
    \cup {"WM_MOUSEMOVE", "WM_MOUSELEAVE", "WM_CAPTURECHANGED"}
Modifiers == 0..1
Positions == 1..NumPositions
Foreign == NumWindows + 1
\* POINTER_INFO of a pointer message: the pointer's type, whether
\* GetPointerTouchInfo / GetPointerPenInfo is there and succeeds for it, and
\* the raw pressure it then reports.
PointerTypes == {"PT_TOUCH", "PT_PEN", "PT_MOUSE"}
RawPressures ==
  (0..PressureMargin)
    \cup ((PressureScale - PressureMargin)..(PressureScale + PressureMargin))
    \cup {MaxRawPressure}
PointerInfo(pointerType, got, pressure) ==
  [pointerType |-> pointerType, got |-> got, pressure |-> pressure]
NoPointer == PointerInfo("PT_MOUSE", FALSE, 0)
\* RAWINPUT of a WM_INPUT message: the device type and, for a keyboard, the
\* RAWKEYBOARD fields that handle_raw_input reads.
RawMessages == {"WM_KEYDOWN", "WM_SYSKEYDOWN", "WM_KEYUP", "WM_SYSKEYUP", "WM_NULL"}
RawFlags == {{}, {"RI_KEY_E0"}, {"RI_KEY_E1"}}
MakeCodes == {0, 29, 30, 42, 82, 83}
VKeys == {"VK_SHIFT", "VK_NUMLOCK", "VK_A"}
RawInput(dwType, Message, Flags, MakeCode, VKey) ==
  [dwType |-> dwType, Message |-> Message, Flags |-> Flags, MakeCode |-> MakeCode,
   VKey |-> VKey]
NoRaw == RawInput("RIM_TYPEHID", "WM_NULL", {}, 0, "VK_A")
Input(modifiers, keys, position, lparam) ==
  [modifiers |-> modifiers, keys |-> keys, position |-> position, lparam |-> lparam,
   pointer |-> NoPointer, raw |-> NoRaw]
NoInput == Input(0, 0, 0, 0)

\* MSG
Msg(message, hwnd) == [message |-> message, hwnd |-> hwnd]
WtMsg(message, lparam) == [message |-> message, lparam |-> lparam]

Range(s) == {s[i] : i \in 1..Len(s)}
Last(s) == s[Len(s)]
SaturatingSub(a, b) == IF a > b THEN a - b ELSE 0

\* What the application callback does in one invocation: nothing, set the
\* control flow, fail, or make the system send a message to one of its windows
\* before it returns (UpdateWindow, a nested modal loop).
Keep == [act |-> "keep", cf |-> Poll, window |-> 0, message |-> ""]
Acts ==
  {[act |-> "cf", cf |-> c, window |-> 0, message |-> ""] : c \in ControlFlow}
  \cup {[act |-> "panic", cf |-> Poll, window |-> 0, message |-> ""]}
  \cup {[act |-> "send", cf |-> Poll, window |-> w, message |-> x] :
          w \in Windows, x \in {"WM_CLOSE", "WM_PAINT"}}
\* The callback's behaviour during one handler: its i-th invocation does script[i].
Quiet == [i \in 1..MaxInv |-> Keep]
Scripts == {Quiet} \cup {[Quiet EXCEPT ![i] = d] : i \in 1..MaxInv, d \in Acts}
\* The callback's behaviour while an input message is handled: it may fail at
\* any invocation, and close a window at the first.
InputScripts ==
  {Quiet}
    \cup {[Quiet EXCEPT ![i] = d] : i \in 1..MaxInv, d \in {a \in Acts : a.act = "panic"}}
    \cup {[Quiet EXCEPT ![1] = d] :
            d \in {a \in Acts : a.act = "send" /\ a.message = "WM_CLOSE"}}

VARIABLES
  pc,              \* run_return: "init", "loop", "returned", "unwound"; "dropped"
                   \* once the EventLoop is dropped
  runner_state, control_flow, event_handler, event_buffer, panic_error,
  owned_windows,   \* the EventLoopRunner
  queue,           \* messages posted to the main thread, oldest first
  paint,           \* windows with a pending paint (WM_PAINT is made when the queue is empty)
  wtq,             \* messages posted to the wait thread
  wait_until_opt,  \* wait_thread: <<>> or <<deadline>>
  wt_pc,           \* wait_thread: "top", "waiting" (inside MsgWaitForMultipleObjectsEx),
                   \* "exited" (after break 'main)
  wt_timeout_at,   \* the instant the bounded wait times out
  now,             \* Instant::now()
  phase,           \* where the delivered event stream stands in its cycle
  failed,          \* the application callback has failed
  raised,          \* times run_return resumed a captured failure
  last,            \* what the latest main-thread handler did
  wt_last          \* what the latest wait-thread step did

\* The X11 backend.
VARIABLES
  X11_BACKEND,     \* the lazy static: Uninit, Ok(connection) or the error kept
  error_handler,   \* the handler last given to XSetErrorHandler
  display,         \* per display handle: opened, and times XCloseDisplay was called
  arcs,            \* per connection: the components holding an Arc clone of it
  latest_error,    \* per connection: the slot, <<>> or <<error code>>
  raised_since,    \* error codes recorded since the singleton's slot was last polled
  x_last,          \* what the latest X11 operation did
  xt_todo,         \* per thread: the steps left of the X11 operation it runs
  xlock,           \* per mutex: the thread holding its guard, 0 when free
  x_once,          \* the Once of the lazy static: "new", "running" or "done"
  x_installed,     \* XSetErrorHandler(x_error_callback) has been called
  x_ok             \* the lazy static holds Ok(connection)

LoopVars == <<pc, runner_state, control_flow, event_handler, event_buffer, panic_error,
              owned_windows, queue, paint, wtq, wait_until_opt, wt_pc, wt_timeout_at, now,
              phase, failed, raised, last, wt_last>>
LockVars == <<xt_todo, xlock, x_once, x_installed, x_ok>>
X11Vars == <<X11_BACKEND, error_handler, display, arcs, latest_error, raised_since, x_last,
             LockVars>>

\* Keyboard and mouse input.
VARIABLES
  window_state,    \* per window: modifiers_state, IN_WINDOW, last_position, capture_count
  mouse_capture,   \* the window that has the mouse capture, 0 when none has
  focus,           \* the window that has the keyboard focus, 0 when none of the thread has
  in_last          \* what the latest input handler was given and sent

\* The invocations of the window callback that are in flight, and the subclass
\* state of each window (SubclassInput).
VARIABLES
  stack,            \* the invocations in flight, outermost first: the window, what
                    \* the handler has yet to do, recurse_depth on entry
  recurse_depth,    \* per window: SubclassInput::recurse_depth
  subclass_removed, \* per window: SubclassInput::subclass_removed
  freed,            \* per window: how many times its SubclassInput was dropped
  lock_owner,       \* per window: the place in `stack` of the invocation that
                    \* holds the WindowState lock, 0 when none does
  cb_last           \* the latest return of the callback: window, recurse_depth
                    \* on entry and after the return

SubclassVars == <<stack, recurse_depth, subclass_removed, freed, lock_owner, cb_last>>
\* A change of a window's DPI.
VARIABLES
  scale_factor,     \* per window: WindowState::scale_factor, as dots per inch
  dpi_in,           \* the WM_DPICHANGED that is pending for a window, with what
                    \* the system answers to the handler's queries; blank if none
  dpi_last          \* what the latest WM_DPICHANGED handler computed and applied

DpiVars == <<scale_factor, dpi_in, dpi_last>>
\* User events sent through EventLoopProxy from other threads.
VARIABLES
  channel,          \* the crossbeam channel of user events, oldest first
  user_msgs,        \* USER_EVENT_MSG_ID messages posted to the thread target and
                    \* not yet dispatched
  proxy_pc,         \* per sending thread: <<>>, or <<event>> between the
                    \* PostMessageW and the event_send.send of send_event
  proxy_sent,       \* calls of EventLoopProxy::send_event made so far
  calls,            \* per call, in the order made: the sending thread, the event
                    \* and the result, "" until send_event returns
  user_delivered,   \* the calls whose event the runner delivered as UserEvent
  blocked_in        \* "recv" while the main thread waits inside
                    \* user_event_receiver.recv(), "lock" while it waits for a
                    \* WindowState lock, "" otherwise

ProxyVars == <<channel, user_msgs, proxy_pc, proxy_sent, calls, user_delivered, blocked_in>>
\* The wait thread's message record and the boxed deadlines of the wake-at
\* requests.
VARIABLES
  wt_msg,           \* wait_thread: the local `msg`, as the latest pass left it
  heap              \* per WaitUntilInstantBox made: the instant in it, and how
                    \* many times it was taken back with from_raw and dropped

BoxVars == <<wt_msg, heap>>
\* Functions given to EventLoopThreadExecutor::execute_in_thread.  A function
\* is named by its caller (0 is the event-loop thread) and its number among
\* that caller's calls.
VARIABLES
  exec_q,           \* EXEC_MSG_ID messages posted to the thread target, oldest first
  exec_calls,       \* per caller: calls of execute_in_thread made
  ran,              \* the functions run, in the order they ran
  exec_lost         \* functions that will never run: the post failed (the
                    \* caller panicked), or the handler's body was skipped

ExecVars == <<exec_q, exec_calls, ran, exec_lost>>
SideVars == <<SubclassVars, DpiVars, ProxyVars, BoxVars, ExecVars>>

InputVars == <<window_state, mouse_capture, focus, in_last, SideVars>>

vars == <<LoopVars, X11Vars, InputVars>>

\* `last` and `wt_last` describe the step that led to the current state; they
\* are blank when that step was not a handler, or not a wait-thread step.
NoLast ==
  [kind |-> "none", hwnd |-> thread_msg_target, paint0 |-> {}, buffer0 |-> <<>>,
   events |-> <<>>, posts |-> <<>>, pcf |-> <<>>]
NoWtLast ==
  [how |-> "none", recv |-> WtMsg("", 0), armed |-> <<>>, posted |-> <<>>, signals |-> 0]

\* ------------------------------------------------ the state a handler works on
Machine(script) ==
  [runner_state |-> runner_state, control_flow |-> control_flow,
   event_handler |-> event_handler, event_buffer |-> event_buffer,
   panic_error |-> panic_error, owned_windows |-> owned_windows,
   queue |-> queue, paint |-> paint, wtq |-> wtq, now |-> now,
   failed |-> failed, script |-> script, inv |-> 0,
   events |-> <<>>, posts |-> <<>>, pcf |-> <<>>,
   window_state |-> window_state, mouse_capture |-> mouse_capture,
   input |-> NoInput, sent |-> <<>>, tracked |-> <<>>]

\* ------------------------------------------------------ EventLoopRunner
\* The runner's set of windows, kept here in the order of registration.
register_window(owned, window) ==
  IF window \in Range(owned) THEN owned ELSE Append(owned, window)
remove_window(owned, window) == SelectSeq(owned, LAMBDA w : w # window)

redrawing(m) == m.runner_state = "HandlingRedrawEvents"
handling_events(m) == m.runner_state # "Idle"
should_buffer(m) == ~m.event_handler

RECURSIVE call_event_handler(_, _)
RECURSIVE public_window_callback_inner(_, _, _)
RECURSIVE flush_paint_messages(_, _)
RECURSIVE PullPaintMessages(_, _, _)
RECURSIVE Run(_, _)

Decision(m) == IF m.inv + 1 <= MaxInv THEN m.script[m.inv + 1] ELSE Keep

\* catch_unwind around the callback: skipped once a failure is recorded; a
\* failure of the callback is recorded, and the handler it took is gone.
call_event_handler(m, ev) ==
  IF m.panic_error THEN m
  ELSE IF ~m.event_handler
  THEN [m EXCEPT !.panic_error = TRUE, !.control_flow = Poll]
  ELSE LET d == Decision(m)
           m1 == [m EXCEPT !.inv = @ + 1, !.events = Append(@, ev)]
       IN CASE d.act = "panic" ->
                 [m1 EXCEPT !.panic_error = TRUE, !.event_handler = FALSE,
                            !.control_flow = Poll, !.failed = TRUE]
            [] d.act = "cf" ->
                 IF m.control_flow = Exit THEN m1 ELSE [m1 EXCEPT !.control_flow = d.cf]
            [] d.act = "send" /\ d.window \in Range(m.owned_windows) ->
                 LET inside == [m1 EXCEPT !.event_handler = FALSE, !.control_flow = Poll]
                     after == public_window_callback_inner(inside, d.window, d.message)
                 IN [after EXCEPT !.event_handler = TRUE, !.control_flow = m.control_flow]
            [] OTHER -> m1

\* A RedrawWindow that leaves no paint pending.
RedrawWindowIgnored(m, hwnd) == m

\* RedrawWindow(hwnd, RDW_INTERNALPAINT)
RedrawWindow(m, hwnd) == [m EXCEPT !.paint = @ \cup {hwnd}]

\* What the runner does, in order: deliver an event to the callback, deliver
\* every buffered event (dispatch_buffered_events), request the thread
\* target's internal paint.
Deliver(ev) == [op |-> "deliver", ev |-> ev]
Drain == [op |-> "drain", ev |-> NewEvents]
Repaint == [op |-> "repaint", ev |-> NewEvents]
Send(ev) == [op |-> "send", ev |-> ev]

call_new_events == <<Deliver(NewEvents), Drain, Repaint>>
call_redraw_events_cleared == <<Deliver(RedrawEventsCleared)>>

\* The events each change of the runner's state emits.
StateChange(old, new) ==
  LET mec == <<Deliver(MainEventsCleared)>>
      rec == call_redraw_events_cleared
      ld == <<Deliver(LoopDestroyed)>>
  IN CASE old = new -> <<>>
       [] old = "Uninitialized" /\ new = "HandlingMainEvents" -> call_new_events
       [] old = "Uninitialized" /\ new = "HandlingRedrawEvents" -> call_new_events \o mec
       [] old = "Uninitialized" /\ new = "Idle" -> call_new_events \o mec \o rec
       [] old = "Uninitialized" /\ new = "Destroyed" -> call_new_events \o mec \o rec \o ld
       [] old = "Idle" /\ new = "HandlingMainEvents" -> call_new_events
       [] old = "Idle" /\ new = "HandlingRedrawEvents" -> call_new_events \o mec
       [] old = "Idle" /\ new = "Destroyed" -> ld
       [] old = "HandlingMainEvents" /\ new = "HandlingRedrawEvents" -> mec
       [] old = "HandlingMainEvents" /\ new = "Idle" -> mec \o rec
       [] old = "HandlingMainEvents" /\ new = "Destroyed" -> mec \o rec \o ld
       [] old = "HandlingRedrawEvents" /\ new = "Idle" -> rec
       [] old = "HandlingRedrawEvents" /\ new = "HandlingMainEvents" -> rec \o call_new_events
       [] old = "HandlingRedrawEvents" /\ new = "Destroyed" -> rec \o ld
       [] OTHER -> <<>>

Run(m, prog) ==
  IF prog = <<>> THEN m
  ELSE LET i == Head(prog)
       IN CASE i.op = "repaint" ->
                 Run(RedrawWindow(m, thread_msg_target), Tail(prog))
            [] i.op = "drain" /\ m.event_buffer = <<>> -> Run(m, Tail(prog))
            [] i.op = "drain" ->
                 Run(call_event_handler([m EXCEPT !.event_buffer = Tail(@)],
                                        Head(m.event_buffer)), prog)
            [] i.op = "send" /\ m.runner_state = "Destroyed" -> Run(m, Tail(prog))
            [] i.op = "send" /\ should_buffer(m) ->
                 Run([m EXCEPT !.event_buffer = Append(@, i.ev)], Tail(prog))
            [] i.op = "send" ->
                 Run([m EXCEPT !.runner_state = "HandlingMainEvents"],
                     StateChange(m.runner_state, "HandlingMainEvents")
                       \o <<Deliver(i.ev), Drain>> \o Tail(prog))
            [] OTHER -> Run(call_event_handler(m, i.ev), Tail(prog))

\* Destroyed is terminal: a dispatch call does nothing there.
move_state_to(m, new) ==
  IF m.runner_state = "Destroyed" THEN m
  ELSE Run([m EXCEPT !.runner_state = new], StateChange(m.runner_state, new))

poll(m) == move_state_to(m, "HandlingMainEvents")
main_events_cleared(m) == move_state_to(m, "HandlingRedrawEvents")
redraw_events_cleared(m) == move_state_to(m, "Idle")
loop_destroyed(m) == move_state_to(m, "Destroyed")

\* A RedrawRequested goes to the callback at once; any other event is buffered
\* while the callback is running or not attached, and else delivered, followed
\* by the buffered ones.
send_event(m, ev) ==
  LET redraw == ev.type = "RedrawRequested"
      new == IF redraw THEN "HandlingRedrawEvents" ELSE "HandlingMainEvents"
      prog == StateChange(m.runner_state, new) \o
              (IF redraw THEN <<Deliver(ev)>> ELSE <<Deliver(ev), Drain>>)
  IN IF m.runner_state = "Destroyed" THEN m
     ELSE IF ~redraw /\ should_buffer(m)
     THEN [m EXCEPT !.event_buffer = Append(@, ev)]
     ELSE Run([m EXCEPT !.runner_state = new], prog)

\* The events other than RedrawRequested that one handler sends, each through
\* send_event, in the order it sends them.
send_events(m, evs) == Run(m, [i \in 1..Len(evs) |-> Send(evs[i])])

set_event_handler(m) == [m EXCEPT !.event_handler = TRUE]

reset_runner(m) ==
  [m EXCEPT !.runner_state = "Destroyed", !.panic_error = FALSE,
            !.control_flow = Poll, !.event_handler = FALSE]

\* ------------------------------------------------------- native posting
PostMessageW(m, msg) ==
  [m EXCEPT !.queue = Append(@, msg),
            !.posts = Append(@, [to |-> "main", message |-> msg.message, lparam |-> 0])]
PostThreadMessageW(m, msg) ==
  [m EXCEPT !.wtq = Append(@, msg),
            !.posts = Append(@, [to |-> "wait_thread", message |-> msg.message,
                                 lparam |-> msg.lparam])]
\* ------------------------------------------------- process_control_flow
\* A process_control_flow whose Wait arm schedules a re-entry as Poll does.
process_control_flow_wait_polls(m) ==
  LET cf == m.control_flow
      m1 == [m EXCEPT !.pcf = Append(@, cf)]
  IN CASE cf.kind \in {"Poll", "Wait"} ->
            PostMessageW(m1, Msg("PROCESS_NEW_EVENTS", thread_msg_target))
       [] cf.kind = "WaitUntil" -> PostThreadMessageW(m1, WtMsg("WAIT_UNTIL", cf.until))
       [] OTHER -> m1

process_control_flow(m) ==
  LET cf == m.control_flow
      m1 == [m EXCEPT !.pcf = Append(@, cf)]
  IN CASE cf.kind = "Poll" -> PostMessageW(m1, Msg("PROCESS_NEW_EVENTS", thread_msg_target))
       [] cf.kind = "WaitUntil" -> PostThreadMessageW(m1, WtMsg("WAIT_UNTIL", cf.until))
       [] OTHER -> m1

\* ------------------------------------------------- flush_paint_messages
\* PeekMessageW(redraw_window, WM_PAINT, WM_PAINT, PM_REMOVE | PM_QS_PAINT) for
\* each owned window but `except` (<<>> or <<hwnd>>), dispatching what it finds.
\* An enumeration of the owned windows that starts from the newest.
RECURSIVE PullPaintMessagesNewestFirst(_, _, _)
PullPaintMessagesNewestFirst(m, ws, except) ==
  IF ws = <<>> THEN m
  ELSE LET redraw_window == Last(ws)
           rest == SubSeq(ws, 1, Len(ws) - 1)
       IN IF <<redraw_window>> = except \/ redraw_window \notin m.paint
          THEN PullPaintMessagesNewestFirst(m, rest, except)
          ELSE PullPaintMessagesNewestFirst(
                 public_window_callback_inner(
                   [m EXCEPT !.paint = @ \ {redraw_window}], redraw_window, "WM_PAINT"),
                 rest, except)

PullPaintMessages(m, ws, except) ==
  IF ws = <<>> THEN m
  ELSE LET redraw_window == Head(ws)
       IN IF <<redraw_window>> = except \/ redraw_window \notin m.paint
          THEN PullPaintMessages(m, Tail(ws), except)
          ELSE PullPaintMessages(
                 public_window_callback_inner(
                   [m EXCEPT !.paint = @ \ {redraw_window}], redraw_window, "WM_PAINT"),
                 Tail(ws), except)

\* A flush that leaves the other windows' paint messages in the queue.
flush_own_paint_only(m, except) ==
  IF ~redrawing(m)
  THEN [m |-> main_events_cleared(m), managing |-> TRUE]
  ELSE [m |-> m, managing |-> FALSE]

\* A flush that reports itself as the managing one also when re-entered.
flush_always_manages(m, except) ==
  IF ~redrawing(m)
  THEN LET m1 == main_events_cleared(m)
       IN [m |-> PullPaintMessages(m1, m1.owned_windows, except), managing |-> TRUE]
  ELSE [m |-> m, managing |-> TRUE]

flush_paint_messages(m, except) ==
  IF ~redrawing(m)
  THEN LET m1 == main_events_cleared(m)
       IN [m |-> PullPaintMessages(m1, m1.owned_windows, except), managing |-> TRUE]
  ELSE [m |-> m, managing |-> FALSE]

\* ----------------------------------------- public_window_callback_inner
\* A WM_PAINT arm that forgets redraw_events_cleared and process_control_flow.
WindowPaintNoCleared(m, window) ==
  IF should_buffer(m)
  THEN RedrawWindow(m, window)
  ELSE send_event(flush_paint_messages(m, <<window>>).m, RedrawRequested(window))

\* A WM_PAINT handler of a window that does not look whether the runner buffers.
WindowPaintUnbuffered(m, window) ==
  LET f == flush_paint_messages(m, <<window>>)
      m1 == send_event(f.m, RedrawRequested(window))
  IN IF f.managing THEN process_control_flow(redraw_events_cleared(m1)) ELSE m1

WindowPaint(m, window) ==
  IF should_buffer(m)
  THEN RedrawWindow(m, window)
  ELSE LET f == flush_paint_messages(m, <<window>>)
           m1 == send_event(f.m, RedrawRequested(window))
       IN IF f.managing THEN process_control_flow(redraw_events_cleared(m1)) ELSE m1

\* ------------------------------------------------ keyboard and mouse input
\* An update_modifiers that sends ModifiersChanged whether or not the
\* modifiers differ.
update_modifiers_always_sends(ws, window, modifiers) ==
  [ws |-> [ws EXCEPT ![window].modifiers_state = modifiers],
   events |-> <<ModifiersChanged(window, modifiers)>>]

\* update_modifiers: a ModifiersChanged when the modifiers differ from the
\* window's modifiers_state, which takes the new value.
update_modifiers(ws, window, modifiers) ==
  IF ws[window].modifiers_state # modifiers
  THEN [ws |-> [ws EXCEPT ![window].modifiers_state = modifiers],
        events |-> <<ModifiersChanged(window, modifiers)>>]
  ELSE [ws |-> ws, events |-> <<>>]

\* A WM_CAPTURECHANGED arm that resets the counter whoever gains the capture.
capture_changed_always_resets(ws, window, lparam) ==
  [ws EXCEPT ![window].capture_count = 0]

\* WM_CAPTURECHANGED: lparam is the window gaining the capture.
capture_changed(ws, window, lparam) ==
  IF lparam # window THEN [ws EXCEPT ![window].capture_count = 0] ELSE ws

\* SetCapture and ReleaseCapture send WM_CAPTURECHANGED to the window of this
\* thread that had the capture, before they return.
SetCapture(ws, capture, window) ==
  [ws |-> IF capture \in Windows THEN capture_changed(ws, capture, window) ELSE ws,
   capture |-> window]
ReleaseCapture(ws, capture) ==
  IF capture \in Windows
  THEN [ws |-> capture_changed(ws, capture, 0), capture |-> 0]
  ELSE [ws |-> ws, capture |-> capture]

capture_mouse(ws, capture, window) ==
  SetCapture([ws EXCEPT ![window].capture_count = @ + 1], capture, window)

\* The WindowState lock the WM_CAPTURECHANGED arm takes.
capture_changed_locks(window, lparam) == IF lparam # window THEN {window} ELSE {}

\* A release_mouse that still holds its guard when it calls ReleaseCapture.
release_mouse_guard_kept(window) == {window}

\* The guards release_mouse holds when it calls ReleaseCapture: none, the
\* guard it was given is dropped before.
release_mouse_guard(window) == {}

\* Whether release_mouse does not return: the WM_CAPTURECHANGED that
\* ReleaseCapture sends before it returns waits for a lock release_mouse holds.
release_mouse_stuck(ws, capture, window) ==
  /\ SaturatingSub(ws[window].capture_count, 1) = 0
  /\ capture \in Windows
  /\ capture_changed_locks(capture, 0) \cap release_mouse_guard(window) # {}

release_mouse(ws, capture, window) ==
  LET ws1 == [ws EXCEPT ![window].capture_count = SaturatingSub(@, 1)]
  IN IF ws1[window].capture_count = 0
     THEN ReleaseCapture(ws1, capture)
     ELSE [ws |-> ws1, capture |-> capture]

\* The first closure of the window callback: new modifiers before key events.
mods_changed_callback(ws, window, msg, in) ==
  IF msg \in KeyMessages
  THEN update_modifiers(ws, window, in.modifiers)
  ELSE [ws |-> ws, events |-> <<>>]

\* The second closure: one KeyboardInput for each event the key event builder
\* makes of a keyboard message.
is_msg_keyboard_related(msg) == msg \in KeyMessages
keyboard_callback(window, msg, in) ==
  IF is_msg_keyboard_related(msg)
  THEN [i \in 1..in.keys |-> KeyboardInput(window, i)]
  ELSE <<>>

\* A WM_MOUSEMOVE arm that does not record the position.
mouse_move_forgets(ws, window, in) ==
  LET was_outside_window == ~ws[window].in_window
      ws1 == [ws EXCEPT ![window].in_window = TRUE]
      entered == IF was_outside_window THEN <<CursorEntered(window)>> ELSE <<>>
      cursor_moved == ws1[window].last_position # <<in.position>>
      u == update_modifiers(ws1, window, in.modifiers)
  IN IF cursor_moved
     THEN [ws |-> u.ws,
           events |-> entered \o u.events \o <<CursorMoved(window, in.position)>>]
     ELSE [ws |-> ws1, events |-> entered]

\* A WM_MOUSEMOVE arm that tests the in-window flag and does not set it.
mouse_move_leaves_flag(ws, window, in) ==
  LET was_outside_window == ~ws[window].in_window
      entered == IF was_outside_window THEN <<CursorEntered(window)>> ELSE <<>>
      cursor_moved == ws[window].last_position # <<in.position>>
      ws2 == [ws EXCEPT ![window].last_position = <<in.position>>]
      u == update_modifiers(ws2, window, in.modifiers)
  IN IF cursor_moved
     THEN [ws |-> u.ws,
           events |-> entered \o u.events \o <<CursorMoved(window, in.position)>>]
     ELSE [ws |-> ws2, events |-> entered]

\* WM_MOUSEMOVE: CursorEntered when the cursor was outside; CursorMoved, after
\* the modifiers, when the position is not the recorded one.
mouse_move(ws, window, in) ==
  LET was_outside_window == ~ws[window].in_window
      ws1 == [ws EXCEPT ![window].in_window = TRUE]
      entered == IF was_outside_window THEN <<CursorEntered(window)>> ELSE <<>>
      cursor_moved == ws1[window].last_position # <<in.position>>
      ws2 == [ws1 EXCEPT ![window].last_position = <<in.position>>]
      u == update_modifiers(ws2, window, in.modifiers)
  IN IF cursor_moved
     THEN [ws |-> u.ws,
           events |-> entered \o u.events \o <<CursorMoved(window, in.position)>>]
     ELSE [ws |-> ws2, events |-> entered]

\* A normalisation that clamps a reading above the scale to full force.
normalize_pointer_pressure_clamps(pressure) ==
  IF pressure = 0 THEN <<>>
  ELSE <<Normalized(IF pressure > PressureScale THEN PressureScale ELSE pressure,
                    PressureScale)>>

normalize_pointer_pressure(pressure) ==
  IF pressure \in 1..PressureScale
  THEN <<Normalized(pressure, PressureScale)>>
  ELSE <<>>

\* The force of one POINTER_INFO in the WM_POINTER* arm.
pointer_force(pointer_info) ==
  IF pointer_info.pointerType \in {"PT_TOUCH", "PT_PEN"} /\ pointer_info.got
  THEN normalize_pointer_pressure(pointer_info.pressure)
  ELSE <<>>

\* The arms of the third closure that handle mouse and pointer input.
callback(ws, capture, window, msg, in) ==
  CASE msg = "WM_MOUSEMOVE" ->
         LET r == mouse_move(ws, window, in)
         IN [ws |-> r.ws, capture |-> capture, events |-> r.events]
    [] msg = "WM_MOUSELEAVE" ->
         [ws |-> [ws EXCEPT ![window].in_window = FALSE], capture |-> capture,
          events |-> <<CursorLeft(window)>>]
    [] msg \in ButtonDown ->
         LET c == capture_mouse(ws, capture, window)
             u == update_modifiers(c.ws, window, in.modifiers)
         IN [ws |-> u.ws, capture |-> c.capture,
             events |-> u.events \o <<MouseInput(window, 1)>>]
    [] msg \in ButtonUp ->
         LET c == release_mouse(ws, capture, window)
             u == update_modifiers(c.ws, window, in.modifiers)
         IN [ws |-> u.ws, capture |-> c.capture,
             events |-> u.events \o <<MouseInput(window, 0)>>]
    [] msg = "WM_CAPTURECHANGED" ->
         [ws |-> capture_changed(ws, window, in.lparam), capture |-> capture,
          events |-> <<>>]
    [] msg = "WM_SETFOCUS" ->
         LET u == update_modifiers(ws, window, in.modifiers)
         IN [ws |-> u.ws, capture |-> capture,
             events |-> u.events \o <<Focused(window, TRUE)>>]
    [] msg = "WM_KILLFOCUS" ->
         [ws |-> [ws EXCEPT ![window].modifiers_state = 0], capture |-> capture,
          events |-> <<ModifiersChanged(window, 0), Focused(window, FALSE)>>]
    [] msg \in PointerMessages ->
         [ws |-> ws, capture |-> capture,
          events |-> <<Touch(window, pointer_force(in.pointer))>>]
    [] OTHER -> [ws |-> ws, capture |-> capture, events |-> <<>>]

\* A window callback that sends the key events before the modifiers.
window_input_keys_first(ws, capture, window, msg, in) ==
  LET a == mods_changed_callback(ws, window, msg, in)
      b == keyboard_callback(window, msg, in)
      c == callback(a.ws, capture, window, msg, in)
  IN [ws |-> c.ws, capture |-> c.capture, events |-> b \o a.events \o c.events]

\* What the closures of the window callback do with an input message, in
\* their order (the one for input methods, between the keyboard's and the
\* last, does nothing with these messages): the window state they leave and the events they send.  (A
\* closure is skipped once the application callback has failed; the events of
\* a skipped closure are the ones the runner then drops.)
window_input(ws, capture, window, msg, in) ==
  LET a == mods_changed_callback(ws, window, msg, in)
      b == keyboard_callback(window, msg, in)
      c == callback(a.ws, capture, window, msg, in)
  IN [ws |-> c.ws, capture |-> c.capture, events |-> a.events \o b \o c.events]

\* public_window_callback_inner for a keyboard or mouse message.
public_window_callback_input(m, window, msg) ==
  LET m0 == RedrawWindow(m, thread_msg_target)
      r == window_input(m.window_state, m.mouse_capture, window, msg, m.input)
  IN IF m0.panic_error THEN m0
     ELSE send_events([m0 EXCEPT !.window_state = r.ws, !.mouse_capture = r.capture,
                                 !.sent = r.events], r.events)

\* A WM_DESTROY arm that takes the window out of the runner's set before it
\* sends Destroyed.
window_destroy_removes_first(m, window) ==
  LET m0 == [m EXCEPT !.owned_windows = remove_window(@, window)]
  IN send_events([m0 EXCEPT !.sent = <<Destroyed(window)>>,
                            !.tracked = <<window \in Range(m0.owned_windows)>>],
                 <<Destroyed(window)>>)

\* WM_DESTROY: Destroyed is sent, then the window is removed from the runner's
\* set.  `tracked` tells whether the set held the window when the event was
\* sent.
window_destroy(m, window) ==
  LET m1 == send_events([m EXCEPT !.sent = <<Destroyed(window)>>,
                                  !.tracked = <<window \in Range(m.owned_windows)>>],
                        <<Destroyed(window)>>)
  IN [m1 EXCEPT !.owned_windows = remove_window(@, window)]

\* public_window_callback_inner for WM_DESTROY.
public_window_callback_destroy(m, window) ==
  LET m0 == RedrawWindow(m, thread_msg_target)
  IN IF m0.panic_error THEN m0 ELSE window_destroy(m0, window)

public_window_callback_inner(m, window, msg) ==
  LET m0 == RedrawWindow(m, thread_msg_target)
  IN IF m0.panic_error THEN m0
     ELSE CASE msg = "WM_CLOSE" -> send_event(m0, CloseRequested(window))
            [] msg = "WM_PAINT" -> WindowPaint(m0, window)
            [] OTHER -> m0

\* ----------------------------------------- thread_event_target_callback
TargetPaint(m) ==
  IF handling_events(m)
  THEN IF should_buffer(m)
       THEN RedrawWindow(m, thread_msg_target)
       ELSE LET f == flush_paint_messages(m, <<>>)
            IN IF f.managing
               THEN process_control_flow(redraw_events_cleared(f.m))
               ELSE [f.m EXCEPT !.panic_error = TRUE]
  ELSE m

ProcessNewEvents(m) ==
  LET m1 == PostThreadMessageW(m, WtMsg("CANCEL_WAIT_UNTIL", 0))
      cf == m1.control_flow
      m2 == IF cf.kind = "WaitUntil" /\ m1.now < cf.until
               /\ m1.queue = <<>> /\ m1.paint = {}
            THEN [m1 EXCEPT !.now = cf.until]
            ELSE m1
  IN poll(m2)

thread_event_target_callback(m, msg) ==
  LET m0 == IF msg # "WM_PAINT" THEN RedrawWindow(m, thread_msg_target) ELSE m
  IN IF m0.panic_error THEN m0
     ELSE CASE msg = "WM_PAINT" -> TargetPaint(m0)
            [] msg = "PROCESS_NEW_EVENTS" -> ProcessNewEvents(m0)
            [] OTHER -> m0


\* ------------------------------------------------------ handle_raw_input
KEY_E0 == 57344
KEY_E1 == 57600
\* The scan codes that are the first report of a key that reports twice:
\* 0xE11D (Pause) and 0xE02A (PrtSc).
FirstHalves == {57629, 57386}
NumpadCodes == {"Numpad0", "NumpadDecimal"}

\* MapVirtualKeyW(vkey, MAPVK_VK_TO_VSC_EX) as u16
MapVirtualKeyW(vkey) ==
  CASE vkey = "VK_SHIFT" -> 42
    [] vkey = "VK_NUMLOCK" -> 69
    [] OTHER -> 30

\* KeyCode::from_scancode
from_scancode(scancode) ==
  CASE scancode = 29 -> "ControlLeft"
    [] scancode = 30 -> "KeyA"
    [] scancode = 42 -> "ShiftLeft"
    [] scancode = 55 -> "NumpadMultiply"
    [] scancode = 69 -> "Pause"
    [] scancode = 82 -> "Numpad0"
    [] scancode = 83 -> "NumpadDecimal"
    [] scancode = KEY_E0 + 55 -> "PrintScreen"
    [] scancode = KEY_E0 + 69 -> "NumLock"
    [] OTHER -> "Unidentified"

\* The scan code of a keyboard report: MakeCode | extension, or the code of
\* the virtual key when the device reports none.
raw_scancode(keyboard) ==
  LET extension == IF "RI_KEY_E0" \in keyboard.Flags THEN KEY_E0
                   ELSE IF "RI_KEY_E1" \in keyboard.Flags THEN KEY_E1 ELSE 0
  IN IF keyboard.MakeCode = 0 THEN MapVirtualKeyW(keyboard.VKey)
     ELSE keyboard.MakeCode + extension

raw_code(keyboard) ==
  IF keyboard.VKey = "VK_NUMLOCK" THEN "NumLock" ELSE from_scancode(raw_scancode(keyboard))

\* A handler of raw input that forwards the first report of a key that
\* reports twice.
handle_raw_input_forwards_first(data) ==
  LET pressed == data.Message \in {"WM_KEYDOWN", "WM_SYSKEYDOWN"}
      released == data.Message \in {"WM_KEYUP", "WM_SYSKEYUP"}
      code == raw_code(data)
  IN IF data.dwType # "RIM_TYPEKEYBOARD" THEN <<>>
     ELSE IF ~pressed /\ ~released THEN <<>>
     ELSE IF data.VKey = "VK_SHIFT" /\ code \in NumpadCodes THEN <<>>
     ELSE <<Key(code, IF pressed THEN Pressed ELSE Released)>>

\* The events handle_raw_input sends for a keyboard report (its arm for the
\* mouse, which sends no Key event, is left out).
handle_raw_input(data) ==
  LET pressed == data.Message \in {"WM_KEYDOWN", "WM_SYSKEYDOWN"}
      released == data.Message \in {"WM_KEYUP", "WM_SYSKEYUP"}
      code == raw_code(data)
  IN IF data.dwType # "RIM_TYPEKEYBOARD" THEN <<>>
     ELSE IF ~pressed /\ ~released THEN <<>>
     ELSE IF raw_scancode(data) \in FirstHalves THEN <<>>
     ELSE IF data.VKey = "VK_SHIFT" /\ code \in NumpadCodes THEN <<>>
     ELSE <<Key(code, IF pressed THEN Pressed ELSE Released)>>

\* thread_event_target_callback for WM_INPUT.
thread_event_target_input(m) ==
  LET m0 == RedrawWindow(m, thread_msg_target)
      evs == handle_raw_input(m.input.raw)
  IN IF m0.panic_error THEN m0
     ELSE send_events([m0 EXCEPT !.sent = evs], evs)

\* ------------------------------------------- the delivered event stream
\* A cycle is NewEvents, other events, MainEventsCleared, RedrawRequested
\* events, RedrawEventsCleared; LoopDestroyed ends the stream.
PhaseStep(p, ev) ==
  CASE p = "start" -> IF ev = NewEvents THEN "main" ELSE "bad"
    [] p = "main" ->
         IF ev.type \in WindowEvents THEN "main"
         ELSE IF ev = MainEventsCleared THEN "redraw" ELSE "bad"
    [] p = "redraw" ->
         IF ev.type = "RedrawRequested" THEN "redraw"
         ELSE IF ev = RedrawEventsCleared THEN "cleared" ELSE "bad"
    [] p = "cleared" ->
         IF ev = NewEvents THEN "main"
         ELSE IF ev = LoopDestroyed THEN "destroyed" ELSE "bad"
    [] p = "destroyed" -> "late"
    [] OTHER -> p

RECURSIVE PhaseAfter(_, _)
PhaseAfter(p, evs) ==
  IF evs = <<>> THEN p ELSE PhaseAfter(PhaseStep(p, Head(evs)), Tail(evs))

\* ------------------------------------------------------------ run_return
\* The end of one iteration of 'main: resume a captured failure, or leave the
\* loop on Exit, deliver LoopDestroyed and reset the runner.
\* A run_return that resets the runner before it calls loop_destroyed.
after_dispatch_reset_first(m) ==
  IF m.panic_error
  THEN [m |-> reset_runner(m), pc |-> "unwound", resumed |-> 1]
  ELSE IF m.control_flow = Exit /\ ~handling_events(m)
  THEN [m |-> loop_destroyed(reset_runner(m)), pc |-> "returned", resumed |-> 0]
  ELSE [m |-> m, pc |-> "loop", resumed |-> 0]

after_dispatch(m) ==
  IF m.panic_error
  THEN [m |-> reset_runner(m), pc |-> "unwound", resumed |-> 1]
  ELSE IF m.control_flow = Exit /\ ~handling_events(m)
  THEN [m |-> reset_runner(loop_destroyed(m)), pc |-> "returned", resumed |-> 0]
  ELSE [m |-> m, pc |-> "loop", resumed |-> 0]

\* The primed state of the loop after a main-thread step.
CommitLoop(r, kind, hwnd) ==
  /\ pc' = r.pc
  /\ raised' = raised + r.resumed
  /\ runner_state' = r.m.runner_state
  /\ control_flow' = r.m.control_flow
  /\ event_handler' = r.m.event_handler
  /\ event_buffer' = r.m.event_buffer
  /\ panic_error' = r.m.panic_error
  /\ owned_windows' = r.m.owned_windows
  /\ queue' = r.m.queue
  /\ paint' = r.m.paint
  /\ wtq' = r.m.wtq
  /\ now' = r.m.now
  /\ failed' = r.m.failed
  /\ phase' = PhaseAfter(phase, r.m.events)
  /\ last' = [kind |-> kind, hwnd |-> hwnd,
              paint0 |-> IF kind = "WM_PAINT" THEN paint \ {hwnd} ELSE {},
              buffer0 |-> IF kind = "run_return" THEN event_buffer ELSE <<>>,
              events |-> r.m.events, posts |-> r.m.posts, pcf |-> r.m.pcf]
  /\ wt_last' = NoWtLast
  /\ UNCHANGED <<wait_until_opt, wt_pc, wt_timeout_at, X11Vars>>

\* The same after a handler that leaves the input state as it is.
Commit(r, kind, hwnd) ==
  /\ pc' = r.pc
  /\ raised' = raised + r.resumed
  /\ runner_state' = r.m.runner_state
  /\ control_flow' = r.m.control_flow
  /\ event_handler' = r.m.event_handler
  /\ event_buffer' = r.m.event_buffer
  /\ panic_error' = r.m.panic_error
  /\ owned_windows' = r.m.owned_windows
  /\ queue' = r.m.queue
  /\ paint' = r.m.paint
  /\ wtq' = r.m.wtq
  /\ now' = r.m.now
  /\ failed' = r.m.failed
  /\ phase' = PhaseAfter(phase, r.m.events)
  /\ last' = [kind |-> kind, hwnd |-> hwnd,
              paint0 |-> IF kind = "WM_PAINT" THEN paint \ {hwnd} ELSE {},
              buffer0 |-> IF kind = "run_return" THEN event_buffer ELSE <<>>,
              events |-> r.m.events, posts |-> r.m.posts, pcf |-> r.m.pcf]
  /\ wt_last' = NoWtLast
  /\ UNCHANGED <<wait_until_opt, wt_pc, wt_timeout_at, X11Vars>>
  /\ UNCHANGED InputVars


InLoop == pc = "loop" /\ Len(wtq) < MaxWtQueue /\ blocked_in = ""

\* set_event_handler, poll, and the loop is entered.
RunReturn ==
  /\ pc = "init"
  /\ \E s \in Scripts :
       LET m == poll(set_event_handler(Machine(s)))
       IN Commit([m |-> m, pc |-> "loop", resumed |-> 0], "run_return", thread_msg_target)

\* GetMessageW returns the oldest posted message.
DispatchHotkey ==
  /\ InLoop /\ queue # <<>> /\ Head(queue).message = "WM_HOTKEY"
  /\ \E s \in Scripts :
       LET m == send_event([Machine(s) EXCEPT !.queue = Tail(@)], GlobalShortcutEvent)
       IN Commit(after_dispatch(m), "WM_HOTKEY", thread_msg_target)

DispatchWindowMessage ==
  /\ InLoop /\ queue # <<>> /\ Head(queue).message = "WM_CLOSE"
  /\ \E s \in Scripts :
       LET m == public_window_callback_inner(
                  [Machine(s) EXCEPT !.queue = Tail(@)], Head(queue).hwnd, "WM_CLOSE")
       IN Commit(after_dispatch(m), "WM_CLOSE", Head(queue).hwnd)

DispatchProcessNewEvents ==
  /\ InLoop /\ queue # <<>> /\ Head(queue).message = "PROCESS_NEW_EVENTS"
  /\ \E s \in Scripts :
       LET m == thread_event_target_callback(
                  [Machine(s) EXCEPT !.queue = Tail(@)], "PROCESS_NEW_EVENTS")
       IN Commit(after_dispatch(m), "PROCESS_NEW_EVENTS", thread_msg_target)

\* With nothing posted, GetMessageW makes a WM_PAINT for a window that has a
\* paint pending, and the pending paint is taken.
DispatchWindowPaint ==
  /\ InLoop /\ queue = <<>>
  /\ \E hwnd \in paint \ {thread_msg_target}, s \in Scripts :
       LET m == public_window_callback_inner(
                  [Machine(s) EXCEPT !.paint = @ \ {hwnd}], hwnd, "WM_PAINT")
       IN Commit(after_dispatch(m), "WM_PAINT", hwnd)

DispatchTargetPaint ==
  /\ InLoop /\ queue = <<>> /\ thread_msg_target \in paint
  /\ \E s \in Scripts :
       LET m == thread_event_target_callback(
                  [Machine(s) EXCEPT !.paint = @ \ {thread_msg_target}], "WM_PAINT")
       IN Commit(after_dispatch(m), "WM_PAINT", thread_msg_target)

\* A message sent to a window while run_return is not running (window
\* creation before the loop, another loop after it).
SendOutsideLoop ==
  /\ pc \in {"init", "returned"}
  /\ Len(event_buffer) < MaxBuffered
  /\ \E hwnd \in Range(owned_windows), x \in {"WM_CLOSE", "WM_PAINT"} :
       LET m == public_window_callback_inner(Machine(Quiet), hwnd, x)
       IN Commit([m |-> m, pc |-> pc, resumed |-> 0], "outside", hwnd)

MainVars == <<pc, runner_state, control_flow, event_handler, event_buffer, panic_error,
              phase, failed, raised, X11Vars, InputVars>>
WaitVars == <<wait_until_opt, wt_pc, wt_timeout_at>>
Unobserved == last' = NoLast /\ wt_last' = NoWtLast

\* ------------------------------------------------------- the environment
\* subclass_window: a new window is registered with the runner.  Window
\* handles are numbered in the order the windows are created.
SubclassWindow ==
  /\ pc = "init"
  /\ Len(owned_windows) < NumWindows
  /\ owned_windows' = Append(owned_windows, Len(owned_windows) + 1)
  /\ Unobserved
  /\ UNCHANGED <<MainVars, WaitVars, queue, paint, wtq, now>>

OsPostsMessage ==
  /\ pc = "loop"
  /\ Len(queue) < MaxQueue
  /\ \/ \E hwnd \in Range(owned_windows) : queue' = Append(queue, Msg("WM_CLOSE", hwnd))
     \/ queue' = Append(queue, Msg("WM_HOTKEY", thread_msg_target))
  /\ Unobserved
  /\ UNCHANGED <<MainVars, WaitVars, owned_windows, paint, wtq, now>>

OsInvalidatesWindow ==
  /\ pc = "loop"
  /\ \E hwnd \in Range(owned_windows) \ paint : paint' = paint \cup {hwnd}
  /\ Unobserved
  /\ UNCHANGED <<MainVars, WaitVars, owned_windows, queue, wtq, now>>

\* Drop for EventLoop: DestroyWindow(thread_msg_target).  The messages and the
\* paint of the thread target go with it, and a later PostMessageW to it fails.
DropEventLoop ==
  /\ pc \in {"init", "returned", "unwound"}
  /\ pc' = "dropped"
  /\ queue' = SelectSeq(queue, LAMBDA x : x.hwnd # thread_msg_target)
  /\ paint' = paint \ {thread_msg_target}
  /\ Unobserved
  /\ UNCHANGED <<runner_state, control_flow, event_handler, event_buffer, panic_error,
                 phase, failed, raised, X11Vars, InputVars, WaitVars, owned_windows, wtq, now>>

\* The clock is only ever compared with a deadline: it advances while one is
\* outstanding.
Watched ==
  \/ control_flow.kind = "WaitUntil"
  \/ wait_until_opt # <<>>
  \/ \E i \in 1..Len(wtq) : wtq[i].message = "WAIT_UNTIL"

Tick ==
  /\ pc = "loop"
  /\ Watched
  /\ now < MaxTime
  /\ now' = now + 1
  /\ Unobserved
  /\ UNCHANGED <<MainVars, WaitVars, owned_windows, queue, paint, wtq>>

\* ------------------------------------------------------------ wait_thread

\* A duration in ticks to whole milliseconds, rounded up.  (Durations over
\* u32::MAX ms become INFINITE; none is within the clock's horizon.)
dur2timeout(dur) == (dur \div TicksPerMs) + (IF dur % TicksPerMs > 0 THEN 1 ELSE 0)

\* A wake-at request that is ignored while a deadline is armed.
receive_keeps_armed(opt, msg) ==
  IF msg.message = "WAIT_UNTIL" THEN (IF opt # <<>> THEN opt ELSE <<msg.lparam>>)
  ELSE IF msg.message = "CANCEL_WAIT_UNTIL" THEN <<>> ELSE opt

\* A cancel that is read as a wake-at request, its zero lParam as the deadline.
receive_cancel_as_deadline(opt, msg) ==
  IF msg.message \in {"WAIT_UNTIL", "CANCEL_WAIT_UNTIL"} THEN <<msg.lparam>> ELSE opt

\* A cancel that is ignored while a deadline is armed.
receive_ignores_cancel(opt, msg) ==
  IF msg.message = "WAIT_UNTIL" THEN <<msg.lparam>> ELSE opt

\* What the received message makes of wait_until_opt.
receive(opt, msg) ==
  IF msg.message = "WAIT_UNTIL" THEN <<msg.lparam>>
  ELSE IF msg.message = "CANCEL_WAIT_UNTIL" THEN <<>> ELSE opt

\* One pass of 'main up to the bounded wait: PeekMessageW when a deadline is
\* armed, GetMessageW (which blocks, and returns 0 for WM_QUIT) when none is.
wait_thread_iteration(opt, q, t) ==
  LET got == q # <<>>
      msg == IF got THEN Head(q) ELSE WtMsg("", 0)
      quit == opt = <<>> /\ msg.message = "WM_QUIT"
      opt1 == receive(opt, msg)
      waits == opt1 # <<>> /\ t < opt1[1]
      fires == opt1 # <<>> /\ ~(t < opt1[1])
  IN [msg |-> msg,
      q |-> IF got THEN Tail(q) ELSE q,
      opt |-> IF fires THEN <<>> ELSE opt1,
      pc |-> IF quit THEN "exited" ELSE IF waits THEN "waiting" ELSE "top",
      timeout_at |-> IF waits
                     THEN t + TicksPerMs * SaturatingSub(dur2timeout(opt1[1] - t), 1)
                     ELSE 0,
      posted |-> IF fires THEN opt1 ELSE <<>>]

WaitThreadIteration ==
  /\ wt_pc = "top"
  /\ wait_until_opt # <<>> \/ wtq # <<>>
  /\ LET r == wait_thread_iteration(wait_until_opt, wtq, now)
     IN /\ wtq' = r.q
        /\ wait_until_opt' = r.opt
        /\ wt_pc' = r.pc
        /\ wt_timeout_at' = r.timeout_at
        /\ queue' = IF r.posted # <<>> /\ pc # "dropped"
                    THEN Append(queue, Msg("PROCESS_NEW_EVENTS", thread_msg_target))
                    ELSE queue
        /\ wt_last' = [how |-> "iteration", recv |-> r.msg, armed |-> wait_until_opt,
                       posted |-> r.posted, signals |-> Len(queue') - Len(queue)]
  /\ last' = NoLast
  /\ UNCHANGED <<MainVars, owned_windows, paint, now>>

\* MsgWaitForMultipleObjectsEx returns because a message is in the queue.
MsgWaitInput ==
  /\ wt_pc = "waiting"
  /\ wtq # <<>>
  /\ wt_pc' = "top"
  /\ wt_last' = [how |-> "input", recv |-> WtMsg("", 0), armed |-> wait_until_opt,
                 posted |-> <<>>, signals |-> 0]
  /\ last' = NoLast
  /\ UNCHANGED <<MainVars, owned_windows, queue, paint, wtq, now, wait_until_opt, wt_timeout_at>>

\* A timeout that drops the deadline and posts nothing.
wait_timeout_silent(opt) == [opt |-> <<>>, posted |-> <<>>]

\* A timeout that posts the signal and keeps the deadline armed.
wait_timeout_stays_armed(opt) == [opt |-> opt, posted |-> opt]

\* MsgWaitForMultipleObjectsEx returns WAIT_TIMEOUT.
wait_timeout(opt) == [opt |-> <<>>, posted |-> opt]

MsgWaitTimeout ==
  /\ wt_pc = "waiting"
  /\ now >= wt_timeout_at
  /\ LET r == wait_timeout(wait_until_opt)
     IN /\ wait_until_opt' = r.opt
        /\ queue' = IF r.posted # <<>> /\ pc # "dropped"
                    THEN Append(queue, Msg("PROCESS_NEW_EVENTS", thread_msg_target))
                    ELSE queue
        /\ wt_last' = [how |-> "timeout", recv |-> WtMsg("", 0), armed |-> wait_until_opt,
                       posted |-> r.posted, signals |-> Len(queue') - Len(queue)]
  /\ wt_pc' = "top"
  /\ last' = NoLast
  /\ UNCHANGED <<MainVars, owned_windows, paint, wtq, now, wt_timeout_at>>

\* ------------------------------------------------------- input messages
\* WindowState::new.
NewWindowState ==
  [modifiers_state |-> 0, in_window |-> FALSE, last_position |-> <<>>, capture_count |-> 0]

\* `in_last` describes the latest input handler: its message and window, what
\* the system knew, the events it sent, the window's state, every window's
\* capture count and the capturing window before it ran, and the window and
\* position of the pointer move that came just before it, if one did.
NoInLast ==
  [message |-> "", window |-> 0, input |-> NoInput, sent |-> <<>>,
   ws0 |-> NewWindowState, counts0 |-> [w \in Windows |-> 0], capture0 |-> 0,
   buffered0 |-> 0, prev_move |-> <<>>, owned0 |-> <<>>, reg0 |-> <<>>,
   tracked |-> <<>>]

\* An input message reaches the callback of one of the windows: dispatched by
\* run_return's loop, or by whoever pumps messages before the loop runs.
InputStep(window, msg, in, script, posted) ==
  /\ InLoop \/ (pc = "init" /\ event_buffer = <<>> /\ blocked_in = "")
  /\ IF /\ msg \in ButtonUp /\ ~panic_error
        /\ release_mouse_stuck(window_state, mouse_capture, window)
     THEN /\ blocked_in' = "lock"
          /\ window_state' = [window_state EXCEPT
                                ![window].capture_count = SaturatingSub(@, 1)]
          /\ in_last' = [NoInLast EXCEPT !.message = msg, !.window = window]
          /\ paint' = paint \cup {thread_msg_target}
          /\ Unobserved
          /\ UNCHANGED <<pc, runner_state, control_flow, event_handler, event_buffer,
                         panic_error, phase, failed, raised, WaitVars, owned_windows,
                         queue, wtq, now, X11Vars, mouse_capture, focus>>
     ELSE LET m == public_window_callback_input([Machine(script) EXCEPT !.input = in],
                                                window, msg)
              r == IF pc = "loop" /\ posted
                   THEN after_dispatch(m)
                   ELSE [m |-> m, pc |-> pc, resumed |-> 0]
          IN /\ CommitLoop(r, msg, window)
             /\ window_state' = m.window_state
             /\ mouse_capture' = IF msg = "WM_CAPTURECHANGED" THEN in.lparam
                                 ELSE m.mouse_capture
             /\ focus' = CASE msg = "WM_SETFOCUS" -> window
                            [] msg = "WM_KILLFOCUS" -> 0
                            [] OTHER -> focus
             /\ in_last' = [message |-> msg, window |-> window, input |-> in,
                            sent |-> m.sent, ws0 |-> window_state[window],
                            counts0 |-> [w \in Windows |-> window_state[w].capture_count],
                            capture0 |-> mouse_capture, buffered0 |-> Len(event_buffer),
                            prev_move |-> IF in_last.message = "WM_MOUSEMOVE"
                                          THEN <<in_last.window, in_last.input.position>>
                                          ELSE <<>>,
                            owned0 |-> <<>>, reg0 |-> <<>>, tracked |-> <<>>]
             /\ blocked_in' = blocked_in
  /\ UNCHANGED <<channel, user_msgs, proxy_pc, proxy_sent, calls, user_delivered>>
  /\ UNCHANGED <<SubclassVars, DpiVars, BoxVars, ExecVars>>

DispatchKey ==
  \E window \in Windows, msg \in KeyMessages, modifiers \in Modifiers,
     keys \in 0..MaxKeyEvents, s \in InputScripts :
    /\ window \in Range(owned_windows)
    /\ InputStep(window, msg, Input(modifiers, keys, 0, 0), s, TRUE)

DispatchMouseMove ==
  \E window \in Windows, modifiers \in Modifiers, position \in Positions, s \in InputScripts :
    /\ window \in Range(owned_windows)
    /\ InputStep(window, "WM_MOUSEMOVE", Input(modifiers, 0, position, 0), s, TRUE)

\* WM_MOUSELEAVE is what the TrackMouseEvent of the entering move asked for.
DispatchMouseLeave ==
  \E window \in Windows, s \in InputScripts :
    /\ window \in Range(owned_windows)
    /\ window_state[window].in_window
    /\ InputStep(window, "WM_MOUSELEAVE", NoInput, s, TRUE)

DispatchButtonDown ==
  \E window \in Windows, msg \in ButtonDown, modifiers \in Modifiers, s \in InputScripts :
    /\ window \in Range(owned_windows)
    /\ window_state[window].capture_count < MaxCapture
    /\ InputStep(window, msg, Input(modifiers, 0, 0, 0), s, TRUE)

DispatchButtonUp ==
  \E window \in Windows, msg \in ButtonUp, modifiers \in Modifiers, s \in InputScripts :
    /\ window \in Range(owned_windows)
    /\ InputStep(window, msg, Input(modifiers, 0, 0, 0), s, TRUE)

\* The window that has the capture loses it to a window of another thread, or
\* to none: the system sends it WM_CAPTURECHANGED.
DispatchCaptureChanged ==
  \E window \in Windows, lparam \in {0, Foreign}, s \in InputScripts :
    /\ window \in Range(owned_windows)
    /\ mouse_capture = window
    /\ InputStep(window, "WM_CAPTURECHANGED", Input(0, 0, 0, lparam), s, FALSE)

\* A key goes down or up while a window has the focus.
DispatchFocusedKey ==
  \E window \in Windows, msg \in {"WM_KEYDOWN", "WM_KEYUP"}, modifiers \in Modifiers,
     s \in InputScripts :
    /\ window \in Range(owned_windows)
    /\ focus = window
    /\ InputStep(window, msg, Input(modifiers, 1, 0, 0), s, TRUE)

\* The keyboard focus comes to a window of the thread, none of which had it.
DispatchSetFocus ==
  \E window \in Windows, modifiers \in Modifiers, s \in InputScripts :
    /\ window \in Range(owned_windows)
    /\ focus = 0
    /\ InputStep(window, "WM_SETFOCUS", Input(modifiers, 0, 0, 0), s, FALSE)

\* The window that has the keyboard focus loses it.
DispatchKillFocus ==
  \E window \in Windows, s \in InputScripts :
    /\ window \in Range(owned_windows)
    /\ focus = window
    /\ InputStep(window, "WM_KILLFOCUS", NoInput, s, FALSE)

\* A pointer message with the one POINTER_INFO of its frame.
DispatchPointer ==
  \E window \in Windows, msg \in PointerMessages, pointerType \in PointerTypes,
     got \in BOOLEAN, pressure \in RawPressures, s \in InputScripts :
    /\ window \in Range(owned_windows)
    /\ InputStep(window, msg,
                 [NoInput EXCEPT !.pointer = PointerInfo(pointerType, got, pressure)],
                 s, TRUE)

\* subclass_window for a window created before or while run_return runs: the
\* window is registered with the runner.  `in_last` keeps the set as it was.
RegisterWindow ==
  \E window \in Windows \ Range(owned_windows) :
    /\ pc \in {"init", "loop"}
    /\ owned_windows' = register_window(owned_windows, window)
    /\ in_last' = [NoInLast EXCEPT !.message = "subclass_window", !.window = window,
                                   !.owned0 = owned_windows]
    /\ Unobserved
    /\ UNCHANGED <<pc, runner_state, control_flow, event_handler, event_buffer,
                   panic_error, phase, failed, raised, WaitVars, queue, paint, wtq,
                   now, X11Vars, window_state, mouse_capture, focus, SideVars>>

\* DestroyWindow sends WM_DESTROY to a window.  `in_last` keeps the set as it
\* was before the handler and, when the step before was the registration of
\* this window, as it was before that registration.
DispatchDestroy ==
  \E window \in Range(owned_windows), s \in InputScripts :
    /\ InLoop \/ (pc = "init" /\ Len(event_buffer) < MaxBuffered)
    /\ LET m == public_window_callback_destroy(Machine(s), window)
       IN /\ CommitLoop([m |-> m, pc |-> pc, resumed |-> 0], "WM_DESTROY", window)
          /\ in_last' = [NoInLast EXCEPT
                           !.message = "WM_DESTROY", !.window = window,
                           !.sent = m.sent, !.tracked = m.tracked,
                           !.buffered0 = Len(event_buffer),
                           !.owned0 = owned_windows,
                           !.reg0 = IF in_last.message = "subclass_window"
                                       /\ in_last.window = window
                                    THEN <<in_last.owned0>> ELSE <<>>]
          /\ UNCHANGED <<window_state, mouse_capture, focus, SideVars>>

\* WM_INPUT reaches the thread target with the report of a raw input device.
DispatchRawInput ==
  \E dwType \in {"RIM_TYPEKEYBOARD", "RIM_TYPEHID"}, Message \in RawMessages,
     Flags \in RawFlags, MakeCode \in MakeCodes, VKey \in VKeys,
     s \in {Quiet, [Quiet EXCEPT ![1] = [act |-> "panic", cf |-> Poll, window |-> 0,
                                          message |-> ""]]} :
    /\ InLoop
    /\ LET in == [NoInput EXCEPT !.raw = RawInput(dwType, Message, Flags, MakeCode, VKey)]
           m == thread_event_target_input([Machine(s) EXCEPT !.input = in])
       IN /\ CommitLoop(after_dispatch(m), "WM_INPUT", thread_msg_target)
          /\ in_last' = [NoInLast EXCEPT !.message = "WM_INPUT", !.input = in,
                                         !.sent = m.sent,
                                         !.buffered0 = Len(event_buffer)]
          /\ UNCHANGED <<window_state, mouse_capture, focus, SideVars>>

\* ------------------------------------------------ public_window_callback
\* What a handler does with the lock of the window's state and with the
\* runner, in the order of the source: "lock" and "unlock" of
\* subclass_input.window_state, "send" (send_event: the application callback
\* may run), "native" (a call of the system made between them), "detach"
\* (remove_window_subclass and subclass_removed.set(true)).
\* An update_modifiers that sends ModifiersChanged before it drops the lock.
update_modifiers_ops_locked(changed) ==
  IF changed THEN <<"lock", "send", "unlock">> ELSE <<"lock", "unlock">>

update_modifiers_ops(changed) ==
  IF changed THEN <<"lock", "unlock", "send">> ELSE <<"lock", "unlock">>

\* keyboard_callback, for the messages is_msg_keyboard_related accepts.
keyboard_callback_ops(events) ==
  <<"lock", "unlock">> \o (IF events THEN <<"send">> ELSE <<>>)

CallbackMessages ==
  {"WM_KEYDOWN", "WM_KILLFOCUS", "WM_MOUSEMOVE", "WM_LBUTTONDOWN", "WM_LBUTTONUP",
   "WM_DPICHANGED", "WM_CLOSE", "WM_DESTROY", "WM_NCDESTROY"}

\* The closures of public_window_callback_inner for one message; `changed`
\* tells whether the modifiers differ from the window's.
window_callback_ops(msg, changed) ==
  CASE msg = "WM_KEYDOWN" ->
         update_modifiers_ops(changed) \o keyboard_callback_ops(TRUE)
    [] msg = "WM_KILLFOCUS" ->
         keyboard_callback_ops(FALSE) \o <<"lock", "unlock", "send", "send">>
    [] msg = "WM_MOUSEMOVE" ->
         <<"lock", "unlock", "send", "native", "lock", "unlock">>
           \o update_modifiers_ops(changed) \o <<"send">>
    [] msg = "WM_LBUTTONDOWN" ->
         <<"lock", "native", "unlock">> \o update_modifiers_ops(changed) \o <<"send">>
    [] msg = "WM_LBUTTONUP" ->
         <<"lock", "unlock", "native">> \o update_modifiers_ops(changed) \o <<"send">>
    [] msg = "WM_DPICHANGED" ->
         <<"lock", "native", "unlock", "send", "lock", "native", "unlock", "native">>
    [] msg = "WM_CLOSE" -> <<"send">>
    [] msg = "WM_DESTROY" -> <<"native", "send">>
    [] msg = "WM_NCDESTROY" -> <<"detach">>
    [] OTHER -> <<>>

\* The end of public_window_callback: what recurse_depth becomes, and whether
\* the SubclassInput is dropped.
\* An end that drops the SubclassInput as soon as the subclass is removed.
callback_exit_frees_at_once(depth, removed) ==
  [depth |-> depth - 1, free |-> removed]

callback_exit(depth, removed) ==
  [depth |-> depth - 1, free |-> removed /\ depth - 1 = 0]

NoCbLast == [window |-> 0, depth0 |-> 0, depth1 |-> 0]
Frame(window, todo, depth0) == [window |-> window, todo |-> todo, depth0 |-> depth0]
InCallback == stack # <<>> /\ Last(stack).todo # <<>> /\ Head(Last(stack).todo) = "send"

\* The system calls public_window_callback for a window whose subclass is
\* attached: from the loop's DispatchMessageW, or, while the application
\* callback runs inside send_event, because of what the callback called.
CallbackEnter ==
  \E window \in Windows, msg \in CallbackMessages, changed \in BOOLEAN :
    /\ Len(stack) < MaxDepth
    /\ stack = <<>> \/ InCallback
    /\ ~subclass_removed[window] /\ freed[window] = 0
    /\ recurse_depth' = [recurse_depth EXCEPT ![window] = @ + 1]
    /\ stack' = Append(stack, Frame(window, window_callback_ops(msg, changed),
                                    recurse_depth[window]))
    /\ cb_last' = NoCbLast
    /\ UNCHANGED <<subclass_removed, freed, lock_owner>>
    /\ UNCHANGED <<LoopVars, X11Vars, window_state, mouse_capture, focus, in_last, DpiVars, ProxyVars, BoxVars, ExecVars>>

\* The innermost invocation does the next thing its handler has to do.  A
\* lock that an outer invocation holds is never released to it: the step is
\* then not enabled, and the thread is stuck.
CallbackStep ==
  /\ stack # <<>> /\ Last(stack).todo # <<>>
  /\ LET f == Last(stack)
         op == Head(f.todo)
         n == Len(stack)
     IN /\ op = "lock" => lock_owner[f.window] = 0
        /\ stack' = [stack EXCEPT ![n].todo = Tail(@)]
        /\ lock_owner' = CASE op = "lock" -> [lock_owner EXCEPT ![f.window] = n]
                            [] op = "unlock" -> [lock_owner EXCEPT ![f.window] = 0]
                            [] OTHER -> lock_owner
        /\ subclass_removed' = IF op = "detach"
                                THEN [subclass_removed EXCEPT ![f.window] = TRUE]
                                ELSE subclass_removed
  /\ cb_last' = NoCbLast
  /\ UNCHANGED <<recurse_depth, freed>>
  /\ UNCHANGED <<LoopVars, X11Vars, window_state, mouse_capture, focus, in_last, DpiVars, ProxyVars, BoxVars, ExecVars>>

\* The innermost invocation returns.
CallbackReturn ==
  /\ stack # <<>> /\ Last(stack).todo = <<>>
  /\ LET f == Last(stack)
         x == callback_exit(recurse_depth[f.window], subclass_removed[f.window])
     IN /\ recurse_depth' = [recurse_depth EXCEPT ![f.window] = x.depth]
        /\ freed' = [freed EXCEPT ![f.window] = @ + (IF x.free THEN 1 ELSE 0)]
        /\ cb_last' = [window |-> f.window, depth0 |-> f.depth0, depth1 |-> x.depth]
        /\ stack' = SubSeq(stack, 1, Len(stack) - 1)
  /\ UNCHANGED <<subclass_removed, lock_owner>>
  /\ UNCHANGED <<LoopVars, X11Vars, window_state, mouse_capture, focus, in_last, DpiVars, ProxyVars, BoxVars, ExecVars>>

SubclassInit ==
  /\ stack = <<>>
  /\ recurse_depth = [w \in Windows |-> 0]
  /\ subclass_removed = [w \in Windows |-> FALSE]
  /\ freed = [w \in Windows |-> 0]
  /\ lock_owner = [w \in Windows |-> 0]
  /\ cb_last = NoCbLast

\* ------------------------------------------------------------ WM_DPICHANGED
\* RECT, and the monitors of the desktop: each a rectangle and its DPI.
Rect(left, top, right, bottom) ==
  [left |-> left, top |-> top, right |-> right, bottom |-> bottom]
Shift(r, dx, dy) == Rect(r.left + dx, r.top + dy, r.right + dx, r.bottom + dy)
Monitor(left, top, dpi) ==
  [rect |-> Rect(left, top, left + MonitorWidth, top + MonitorHeight), dpi |-> dpi]
MaxOf(a, b) == IF a >= b THEN a ELSE b
MinOf(a, b) == IF a <= b THEN a ELSE b
\* The area two rectangles share.
Overlap(a, b) ==
  LET w == MinOf(a.right, b.right) - MaxOf(a.left, b.left)
      h == MinOf(a.bottom, b.bottom) - MaxOf(a.top, b.top)
  IN IF w > 0 /\ h > 0 THEN w * h ELSE 0
Within(a, b) ==
  a.left >= b.left /\ a.top >= b.top /\ a.right <= b.right /\ a.bottom <= b.bottom

BASE_DPI == 96
HIGH_DPI == 144
\* Two monitors: side by side, one above the other, apart, and corner to
\* corner.
Layouts ==
  {<<Monitor(0, 0, BASE_DPI), Monitor(MonitorWidth, 0, HIGH_DPI)>>,
   <<Monitor(0, 0, BASE_DPI), Monitor(0, MonitorHeight, HIGH_DPI)>>,
   <<Monitor(0, 0, BASE_DPI), Monitor(MonitorWidth + 2, 0, HIGH_DPI)>>,
   <<Monitor(0, 0, BASE_DPI), Monitor(MonitorWidth, MonitorHeight, HIGH_DPI)>>}

\* MonitorFromRect(rect, MONITOR_DEFAULTTONULL): the monitor that shares the
\* largest area with the rectangle, 0 (null) when none shares any; `prefer`
\* is the monitor the system picks when two share the same area.
MonitorFromRect(monitors, rect, prefer) ==
  LET hit == {i \in 1..Len(monitors) : Overlap(rect, monitors[i].rect) > 0}
      best == {i \in hit : \A j \in hit :
                 Overlap(rect, monitors[i].rect) >= Overlap(rect, monitors[j].rect)}
  IN IF hit = {} THEN 0
     ELSE IF prefer \in best THEN prefer
     ELSE CHOOSE i \in best : \A j \in best : i <= j

\* GetMonitorInfoW(monitor).rcMonitor; the struct stays zeroed for a null
\* monitor.
get_monitor_rect(monitors, monitor) ==
  IF monitor = 0 THEN Rect(0, 0, 0, 0) ELSE monitors[monitor].rect

\* util::adjust_window_rect_with_styles: the outer rectangle of a window whose
\* client area is `rect`, with a frame of `frame` pixels on each side.
adjust_window_rect_with_styles(rect, frame) ==
  Rect(rect.left - frame, rect.top - frame, rect.right + frame, rect.bottom + frame)

\* Pixel::to_logical and Pixel::to_physical of dpi.rs: a logical length is the
\* physical length divided by the scale factor dpi / 96, kept as a fraction;
\* a physical length is the logical one times the scale factor, rounded (half
\* away from zero).
to_logical(physical, dpi) == [num |-> physical * BASE_DPI, den |-> dpi]
to_physical(logical, dpi) ==
  (2 * logical.num * dpi + logical.den * BASE_DPI) \div (2 * logical.den * BASE_DPI)
Rescale(size, old_dpi, new_dpi) ==
  Size(to_physical(to_logical(size.width, old_dpi), new_dpi),
       to_physical(to_logical(size.height, old_dpi), new_dpi))

\* What the system tells the handler of one WM_DPICHANGED: the new DPI
\* (wparam), the suggested rectangle (lparam), the window's rectangle, frame
\* and client size, whether it is fullscreen, maximized, or being moved by the
\* user (MARKER_IN_SIZE_MOVE) and where the cursor then is, the monitors, and
\* the size the application callback writes to new_inner_size, if it writes.
DpiIn(window, new_dpi, suggested_rect, window_rect, frame, fullscreen, maximized, dragging, cursor_x, monitors, prefer, written) ==
  [window |-> window, new_dpi |-> new_dpi, suggested_rect |-> suggested_rect,
   window_rect |-> window_rect, frame |-> frame, fullscreen |-> fullscreen,
   maximized |-> maximized, dragging |-> dragging, cursor_x |-> cursor_x,
   monitors |-> monitors, prefer |-> prefer, written |-> written]
NoDpiIn ==
  DpiIn(0, BASE_DPI, Rect(0, 0, 0, 0), Rect(0, 0, 0, 0), 0, FALSE, FALSE, FALSE, 0,
        <<>>, 0, <<>>)

\* The nudge loop: `iterations` counts the passes through its body.
\* A loop that does not look where the rectangle is and makes every pass.
RECURSIVE nudge_to_the_end(_, _, _, _, _, _)
nudge_to_the_end(monitors, prefer, rect, delta, target, n) ==
  IF n <= 0 THEN [rect |-> rect, iterations |-> 0]
  ELSE LET moved == Shift(rect, delta[1], delta[2])
           rest == nudge_to_the_end(monitors, prefer, moved, delta, target, n - 1)
       IN [rect |-> rest.rect, iterations |-> rest.iterations + 1]

RECURSIVE nudge(_, _, _, _, _, _)
nudge(monitors, prefer, rect, delta, target, n) ==
  IF n <= 0 THEN [rect |-> rect, iterations |-> 0]
  ELSE LET moved == Shift(rect, delta[1], delta[2])
       IN IF MonitorFromRect(monitors, moved, prefer) = target
          THEN [rect |-> moved, iterations |-> 1]
          ELSE LET rest == nudge(monitors, prefer, moved, delta, target, n - 1)
               IN [rect |-> rest.rect, iterations |-> rest.iterations + 1]

\* delta_nudge_to_dpi_monitor
delta_nudge(wrong_monitor_rect, new_monitor_rect) ==
  <<IF wrong_monitor_rect.left = new_monitor_rect.right THEN -1
    ELSE IF wrong_monitor_rect.right = new_monitor_rect.left THEN 1 ELSE 0,
    IF wrong_monitor_rect.bottom = new_monitor_rect.top THEN 1
    ELSE IF wrong_monitor_rect.top = new_monitor_rect.bottom THEN -1 ELSE 0>>

\* The first part of the arm, up to the event: the scale factor the window
\* state takes, and the size offered in ScaleFactorChanged (none when the
\* scale factor does not change, and the arm returns).
\* An arm that offers the old physical size whatever the window is.
dpi_offer_keeps_size(old_scale_factor, in) ==
  LET old_physical_inner_rect ==
        adjust_window_rect_with_styles(in.window_rect, 0 - in.frame)
      old_physical_inner_size ==
        Size(old_physical_inner_rect.right - old_physical_inner_rect.left,
             old_physical_inner_rect.bottom - old_physical_inner_rect.top)
  IN [returned |-> in.new_dpi = old_scale_factor, old_size |-> old_physical_inner_size,
      new_size |-> old_physical_inner_size]

dpi_offer(old_scale_factor, in) ==
  LET allow_resize == ~in.fullscreen /\ ~in.maximized
      old_physical_inner_rect ==
        adjust_window_rect_with_styles(in.window_rect, 0 - in.frame)
      old_physical_inner_size ==
        Size(old_physical_inner_rect.right - old_physical_inner_rect.left,
             old_physical_inner_rect.bottom - old_physical_inner_rect.top)
  IN [returned |-> in.new_dpi = old_scale_factor, old_size |-> old_physical_inner_size,
      new_size |-> IF allow_resize
                   THEN Rescale(old_physical_inner_size, old_scale_factor, in.new_dpi)
                   ELSE old_physical_inner_size]

\* The second part, after the event: the rectangle given to SetWindowPos.
dpi_reposition(in, new_physical_inner_size) ==
  LET suggested_rect == in.suggested_rect
      adjusted_rect == adjust_window_rect_with_styles(suggested_rect, in.frame)
      margin_left == suggested_rect.left - adjusted_rect.left
      margin_top == suggested_rect.top - adjusted_rect.top
      suggested_ul == <<suggested_rect.left + margin_left, suggested_rect.top + margin_top>>
      inner == Rect(suggested_ul[1], suggested_ul[2],
                    suggested_ul[1] + new_physical_inner_size.width,
                    suggested_ul[2] + new_physical_inner_size.height)
      outer == adjust_window_rect_with_styles(inner, in.frame)
      \* (cursor - ratio * width) - left, the ratio being the cursor's place
      \* in the suggested rectangle
      bias == (in.cursor_x
                 - (((in.cursor_x - suggested_rect.left) * (outer.right - outer.left))
                      \div (suggested_rect.right - suggested_rect.left)))
              - outer.left
      conservative_rect == IF in.dragging THEN Shift(outer, bias, 0) ELSE outer
      new_dpi_monitor == MonitorFromRect(in.monitors, in.window_rect, in.prefer)
      conservative_rect_monitor == MonitorFromRect(in.monitors, conservative_rect, in.prefer)
      wrong_monitor_rect == get_monitor_rect(in.monitors, conservative_rect_monitor)
      new_monitor_rect == get_monitor_rect(in.monitors, new_dpi_monitor)
      delta_nudge_to_dpi_monitor == delta_nudge(wrong_monitor_rect, new_monitor_rect)
      abort_after_iterations ==
        new_monitor_rect.right - new_monitor_rect.left
          + new_monitor_rect.bottom - new_monitor_rect.top
      looped == nudge(in.monitors, in.prefer, conservative_rect,
                      delta_nudge_to_dpi_monitor, new_dpi_monitor, abort_after_iterations)
  IN IF conservative_rect_monitor = new_dpi_monitor
     THEN [conservative_rect |-> conservative_rect, new_dpi_monitor |-> new_dpi_monitor,
           wrong_monitor |-> conservative_rect_monitor, nudged |-> FALSE,
           delta |-> <<0, 0>>, iterations |-> 0, new_outer_rect |-> conservative_rect]
     ELSE [conservative_rect |-> conservative_rect, new_dpi_monitor |-> new_dpi_monitor,
           wrong_monitor |-> conservative_rect_monitor, nudged |-> TRUE,
           delta |-> delta_nudge_to_dpi_monitor, iterations |-> looped.iterations,
           new_outer_rect |-> looped.rect]

NoDpiLast ==
  [in |-> NoDpiIn, old_scale_factor |-> BASE_DPI, returned |-> FALSE,
   old_size |-> Size(0, 0), offered |-> Size(0, 0), new_size |-> Size(0, 0),
   delivered |-> FALSE, conservative_rect |-> Rect(0, 0, 0, 0), new_dpi_monitor |-> 0,
   wrong_monitor |-> 0, nudged |-> FALSE, delta |-> <<0, 0>>, iterations |-> 0,
   new_outer_rect |-> Rect(0, 0, 0, 0), applied |-> FALSE]

\* WM_DPICHANGED is sent to a window: the scale factor is stored, the size is
\* offered to the callback in ScaleFactorChanged, and the window is given the
\* rectangle worked out from the size the callback left.
DispatchDpiChanged ==
  \E s \in {Quiet, [Quiet EXCEPT ![1] = [act |-> "panic", cf |-> Poll, window |-> 0,
                                         message |-> ""]]} :
    /\ dpi_in # NoDpiIn
    /\ InLoop \/ pc = "init"
    /\ LET in == dpi_in
           window == in.window
           o == dpi_offer(scale_factor[window], in)
           body == ~panic_error /\ ~o.returned
           ev == ScaleFactorChanged(window, o.new_size)
           m0 == RedrawWindow(Machine(s), thread_msg_target)
           m == IF body THEN send_events([m0 EXCEPT !.sent = <<ev>>], <<ev>>) ELSE m0
           delivered == body /\ \E i \in 1..Len(m.events) : m.events[i] = ev
           new_size == IF delivered /\ in.written # <<>> THEN in.written[1] ELSE o.new_size
           r == dpi_reposition(in, new_size)
       IN /\ CommitLoop([m |-> m, pc |-> pc, resumed |-> 0], "WM_DPICHANGED", window)
          /\ scale_factor' = IF panic_error THEN scale_factor
                              ELSE [scale_factor EXCEPT ![window] = in.new_dpi]
          /\ dpi_in' = NoDpiIn
          /\ dpi_last' =
               IF body
               THEN [in |-> in, old_scale_factor |-> scale_factor[window],
                     returned |-> FALSE, old_size |-> o.old_size, offered |-> o.new_size,
                     new_size |-> new_size, delivered |-> delivered,
                     conservative_rect |-> r.conservative_rect,
                     new_dpi_monitor |-> r.new_dpi_monitor,
                     wrong_monitor |-> r.wrong_monitor, nudged |-> r.nudged,
                     delta |-> r.delta, iterations |-> r.iterations,
                     new_outer_rect |-> r.new_outer_rect, applied |-> TRUE]
               ELSE [NoDpiLast EXCEPT !.in = in, !.old_scale_factor = scale_factor[window],
                                      !.returned = TRUE]
          /\ in_last' = [NoInLast EXCEPT !.message = "WM_DPICHANGED", !.window = window,
                                         !.sent = m.sent]
          /\ UNCHANGED <<window_state, mouse_capture, focus, SubclassVars, ProxyVars, BoxVars, ExecVars>>

DpiInit ==
  /\ scale_factor = [w \in Windows |-> BASE_DPI]
  /\ dpi_in = NoDpiIn
  /\ dpi_last = NoDpiLast

\* ------------------------------------------------------ EventLoopProxy
Proxies == 1..NumProxies
UserEvents == 1..NumUserEvents

\* A channel that hands out the newest event first.
event_send_newest_first(ch, call) == <<call>> \o ch

\* event_send.send(event) on the unbounded channel
event_send(ch, call) == Append(ch, call)

\* EventLoopProxy::send_event, first half: PostMessageW to the thread target,
\* which succeeds while that window exists; when it fails send_event returns
\* Err(EventLoopClosed(event)).
ProxyPostMessage ==
  \E p \in Proxies, event \in UserEvents :
    /\ proxy_pc[p] = <<>>
    /\ proxy_sent < MaxUserEvents
    /\ pc \in {"init", "loop", "dropped"}
    /\ proxy_sent' = proxy_sent + 1
    /\ IF pc # "dropped"
       THEN /\ user_msgs' = user_msgs + 1
            /\ proxy_pc' = [proxy_pc EXCEPT ![p] = <<proxy_sent + 1>>]
            /\ calls' = Append(calls, [by |-> p, event |-> event, result |-> "",
                                       returned |-> 0])
       ELSE /\ calls' = Append(calls, [by |-> p, event |-> event, result |-> "Err",
                                       returned |-> event])
            /\ UNCHANGED <<user_msgs, proxy_pc>>
    /\ UNCHANGED <<channel, user_delivered, blocked_in>>
    /\ UNCHANGED <<LoopVars, X11Vars, window_state, mouse_capture, focus, in_last,
                   SubclassVars, DpiVars, BoxVars, ExecVars>>

\* EventLoopProxy::send_event, second half: the event is put in the channel
\* and Ok(()) returned.
ProxyChannelSend ==
  \E p \in Proxies :
    /\ proxy_pc[p] # <<>>
    /\ channel' = event_send(channel, proxy_pc[p][1])
    /\ calls' = [calls EXCEPT ![proxy_pc[p][1]].result = "Ok"]
    /\ proxy_pc' = [proxy_pc EXCEPT ![p] = <<>>]
    /\ UNCHANGED <<user_msgs, proxy_sent, user_delivered, blocked_in>>
    /\ UNCHANGED <<LoopVars, X11Vars, window_state, mouse_capture, focus, in_last,
                   SubclassVars, DpiVars, BoxVars, ExecVars>>

\* USER_EVENT_MSG_ID reaches the thread target while the channel is empty:
\* recv() does not return, and the main thread stays in it.
UserEventBlocks ==
  /\ InLoop /\ ~panic_error
  /\ user_msgs > 0
  /\ channel = <<>>
  /\ user_msgs' = user_msgs - 1
  /\ blocked_in' = "recv"
  /\ paint' = paint \cup {thread_msg_target}
  /\ in_last' = NoInLast
  /\ Unobserved
  /\ UNCHANGED <<channel, proxy_pc, proxy_sent, calls, user_delivered>>
  /\ UNCHANGED <<pc, runner_state, control_flow, event_handler, event_buffer,
                 panic_error, phase, failed, raised, WaitVars, owned_windows, queue,
                 wtq, now, X11Vars, window_state, mouse_capture, focus, SubclassVars, DpiVars, BoxVars, ExecVars>>

\* recv() returns an event, at once when USER_EVENT_MSG_ID is dispatched with
\* the channel filled, or to the main thread that waited in it; the event is
\* sent as Event::UserEvent.
UserEventReceived ==
  \E s \in {Quiet, [Quiet EXCEPT ![1] = [act |-> "panic", cf |-> Poll, window |-> 0,
                                         message |-> ""]]} :
    /\ channel # <<>>
    /\ \/ InLoop /\ ~panic_error /\ user_msgs > 0
       \/ blocked_in = "recv"
    /\ LET ev == UserEvent(calls[Head(channel)].event)
           m0 == RedrawWindow(Machine(s), thread_msg_target)
           m == send_events([m0 EXCEPT !.sent = <<ev>>], <<ev>>)
       IN /\ CommitLoop(after_dispatch(m), "USER_EVENT", thread_msg_target)
          /\ in_last' = [NoInLast EXCEPT !.message = "USER_EVENT", !.sent = m.sent]
          /\ user_delivered' = IF \E i \in 1..Len(m.events) : m.events[i] = ev
                          THEN Append(user_delivered, Head(channel)) ELSE user_delivered
    /\ channel' = Tail(channel)
    /\ user_msgs' = IF blocked_in = "recv" THEN user_msgs ELSE user_msgs - 1
    /\ blocked_in' = ""
    /\ UNCHANGED <<proxy_pc, proxy_sent, calls>>
    /\ UNCHANGED <<window_state, mouse_capture, focus, SubclassVars, DpiVars, BoxVars, ExecVars>>

\* USER_EVENT_MSG_ID is dispatched while a failure of the callback is waiting
\* to be resumed: catch_unwind skips the body, nothing is received.
UserEventSkipped ==
  /\ InLoop /\ panic_error
  /\ user_msgs > 0
  /\ LET m == RedrawWindow(Machine(Quiet), thread_msg_target)
     IN /\ CommitLoop(after_dispatch(m), "USER_EVENT", thread_msg_target)
        /\ in_last' = [NoInLast EXCEPT !.message = "USER_EVENT"]
  /\ user_msgs' = user_msgs - 1
  /\ UNCHANGED <<channel, proxy_pc, proxy_sent, calls, user_delivered, blocked_in>>
  /\ UNCHANGED <<window_state, mouse_capture, focus, SubclassVars, DpiVars, BoxVars, ExecVars>>

ProxyInit ==
  /\ channel = <<>>
  /\ user_msgs = 0
  /\ proxy_pc = [p \in Proxies |-> <<>>]
  /\ proxy_sent = 0
  /\ calls = <<>>
  /\ user_delivered = <<>>
  /\ blocked_in = ""

\* ---------------------------------------------- EventLoopThreadExecutor
Callers == 0..NumCallers
Function(caller, n) == [caller |-> caller, n |-> n]

\* A handler of EXEC_MSG_ID that calls the function twice.
exec_handler_twice(functions, function, skipped) ==
  IF skipped THEN functions ELSE functions \o <<function, function>>

\* The EXEC_MSG_ID arm: the box is taken back and the function called,
\* unless catch_unwind skips the body because a failure is already captured.
exec_handler(functions, function, skipped) ==
  IF skipped THEN functions ELSE Append(functions, function)

\* execute_in_thread: called on the event-loop thread the function runs
\* before the call returns; called on another thread it is boxed and posted,
\* and the assertion fails if the post fails, as it does once the thread
\* target is destroyed.
ExecuteInThread ==
  \E caller \in Callers :
    /\ exec_calls[caller] < MaxCalls
    /\ pc \in {"init", "loop", "dropped"}
    /\ exec_calls' = [exec_calls EXCEPT ![caller] = @ + 1]
    /\ LET function == Function(caller, exec_calls[caller] + 1)
           in_event_loop_thread == caller = 0
           res == pc # "dropped"
       IN IF in_event_loop_thread
          THEN ran' = Append(ran, function) /\ UNCHANGED <<exec_q, exec_lost>>
          ELSE IF res
          THEN exec_q' = Append(exec_q, function) /\ UNCHANGED <<ran, exec_lost>>
          ELSE exec_lost' = exec_lost \cup {function} /\ UNCHANGED <<ran, exec_q>>
    /\ UNCHANGED <<LoopVars, X11Vars, window_state, mouse_capture, focus, in_last,
                   SubclassVars, DpiVars, ProxyVars, BoxVars>>

\* EXEC_MSG_ID reaches the thread target.
DispatchExec ==
  /\ InLoop
  /\ exec_q # <<>>
  /\ LET m == RedrawWindow(Machine(Quiet), thread_msg_target)
     IN /\ CommitLoop(after_dispatch(m), "EXEC", thread_msg_target)
        /\ ran' = exec_handler(ran, Head(exec_q), m.panic_error)
        /\ exec_lost' = IF m.panic_error THEN exec_lost \cup {Head(exec_q)} ELSE exec_lost
  /\ exec_q' = Tail(exec_q)
  /\ UNCHANGED <<exec_calls, window_state, mouse_capture, focus, in_last,
                 SubclassVars, DpiVars, ProxyVars, BoxVars>>

ExecInit ==
  /\ exec_q = <<>>
  /\ exec_calls = [caller \in Callers |-> 0]
  /\ ran = <<>>
  /\ exec_lost = {}

\* ------------------------------------------------- WaitUntilInstantBox
\* A wait thread that does not zero `msg` at the start of a pass.
mem_kept(msg) == msg

\* msg = mem::zeroed()
mem_zeroed(msg) == WtMsg("", 0)

\* One pass of 'main with the message record followed: lparam of a
\* WAIT_UNTIL message is the raw pointer of its box (the box's place in `heap`).
wait_thread_pass(msg0, opt, q, boxes, t) ==
  LET zeroed == mem_zeroed(msg0)
      got == q # <<>>
      msg == IF got THEN Head(q) ELSE zeroed
      from_raw == msg.message = "WAIT_UNTIL"
      opt1 == IF from_raw THEN <<boxes[msg.lparam].instant>>
              ELSE IF msg.message = "CANCEL_WAIT_UNTIL" THEN <<>> ELSE opt
      waits == opt1 # <<>> /\ t < opt1[1]
      fires == opt1 # <<>> /\ ~(t < opt1[1])
  IN [msg |-> msg, got |-> got,
      q |-> IF got THEN Tail(q) ELSE q,
      heap |-> IF from_raw THEN [boxes EXCEPT ![msg.lparam].dropped = @ + 1] ELSE boxes,
      opt |-> IF fires THEN <<>> ELSE opt1,
      pc |-> IF waits THEN "waiting" ELSE "top",
      timeout_at |-> IF waits
                     THEN t + TicksPerMs * SaturatingSub(dur2timeout(opt1[1] - t), 1)
                     ELSE 0,
      posted |-> IF fires THEN opt1 ELSE <<>>]

\* process_control_flow with WaitUntil(until): the instant is boxed and the
\* raw pointer posted to the wait thread.
BoxedWaitUntil ==
  \E until \in Deadlines :
    /\ pc = "loop"
    /\ Len(heap) < MaxBoxes /\ Len(wtq) < MaxBoxQueue
    /\ heap' = Append(heap, [instant |-> until, dropped |-> 0])
    /\ wtq' = Append(wtq, WtMsg("WAIT_UNTIL", Len(heap) + 1))
    /\ Unobserved
    /\ UNCHANGED <<wt_msg, WaitVars, owned_windows, queue, paint, now>>
    /\ UNCHANGED <<pc, runner_state, control_flow, event_handler, event_buffer, panic_error,
                   phase, failed, raised, X11Vars, window_state, mouse_capture, focus, in_last,
                   SubclassVars, DpiVars, ProxyVars, ExecVars>>

\* The process-new-events handler posts CANCEL_WAIT_UNTIL_MSG_ID.
BoxedCancel ==
  /\ pc = "loop"
  /\ Len(wtq) < MaxBoxQueue
  /\ wtq' = Append(wtq, WtMsg("CANCEL_WAIT_UNTIL", 0))
  /\ Unobserved
  /\ UNCHANGED <<MainVars, WaitVars, owned_windows, queue, paint, now>>

BoxedPass ==
  /\ wt_pc = "top"
  /\ wait_until_opt # <<>> \/ wtq # <<>>
  /\ LET r == wait_thread_pass(wt_msg, wait_until_opt, wtq, heap, now)
     IN /\ wtq' = r.q
        /\ wt_msg' = r.msg
        /\ heap' = r.heap
        /\ wait_until_opt' = r.opt
        /\ wt_pc' = r.pc
        /\ wt_timeout_at' = r.timeout_at
        /\ queue' = IF r.posted # <<>>
                    THEN Append(queue, Msg("PROCESS_NEW_EVENTS", thread_msg_target))
                    ELSE queue
        /\ wt_last' = [how |-> IF r.got THEN "iteration" ELSE "empty", recv |-> r.msg,
                       armed |-> wait_until_opt, posted |-> r.posted,
                       signals |-> Len(queue') - Len(queue)]
  /\ last' = NoLast
  /\ UNCHANGED <<owned_windows, paint, now>>
  /\ UNCHANGED <<pc, runner_state, control_flow, event_handler, event_buffer, panic_error,
                 phase, failed, raised, X11Vars, window_state, mouse_capture, focus, in_last,
                 SubclassVars, DpiVars, ProxyVars, ExecVars>>

\* MsgWaitForMultipleObjectsEx returns before the timeout, whether or not a
\* message can then be retrieved.
BoxedWaitInput ==
  /\ wt_pc = "waiting"
  /\ Len(heap) > 0
  /\ wt_pc' = "top"
  /\ wt_last' = [how |-> "input", recv |-> wt_msg, armed |-> wait_until_opt,
                 posted |-> <<>>, signals |-> 0]
  /\ last' = NoLast
  /\ UNCHANGED <<MainVars, owned_windows, queue, paint, wtq, now, wait_until_opt, wt_timeout_at>>

BoxInit ==
  /\ wt_msg = WtMsg("", 0)
  /\ heap = <<>>

InputInit ==
  /\ window_state = [w \in Windows |-> NewWindowState]
  /\ mouse_capture = 0
  /\ focus = 0
  /\ in_last = NoInLast
  /\ SubclassInit
  /\ DpiInit
  /\ ProxyInit
  /\ BoxInit
  /\ ExecInit

\* ------------------------------------------------------------ x11.rs
Components == 1..NumComponents
Connections == 1..MaxConnections
ErrorCodes == 1..NumErrorCodes

\* The libraries XConnection::new opens: all must load except xrandr 1.5,
\* whose failure is tolerated.
Libraries == {"xlib", "xcursor", "xrandr_2_2_0", "xrandr", "xinput2", "xlib_xcb", "xrender"}
Required == Libraries \ {"xrandr"}

\* What the process finds when it tries to open a connection: the libraries
\* that load, and whether XOpenDisplay returns a display.
Environments ==
  {[loadable |-> l, display |-> b] :
     l \in {Libraries, Libraries \ {"xrandr"}, Libraries \ {"xrender"}}, b \in BOOLEAN}
NoEnvironment == [loadable |-> {}, display |-> FALSE]

Uninit == [state |-> "Uninit", conn |-> 0]
Ok(conn) == [state |-> "Ok", conn |-> conn]
XNotSupported == {[state |-> e, conn |-> 0] : e \in {"LibraryOpenError", "XOpenDisplayFailed"}}

NoXLast ==
  [op |-> "none", who |-> 0, conn |-> 0, env |-> NoEnvironment, backend0 |-> Uninit,
   slot0 |-> <<>>, raised0 |-> <<>>, inited |-> FALSE, result |-> <<>>]

\* The display handle the next successful XOpenDisplay returns.
Unopened == {d \in Connections : ~display[d].opened}
NextDisplay == CHOOSE d \in Unopened : \A e \in Unopened : d <= e

\* The handlers a caller of XConnection::new may pass: x_error_callback is
\* private to x11.rs and is passed by the lazy static only.
OtherHandlers == {"None", "other"}

\* XConnection::new(error_handler): the result, and the handler installed
\* afterwards (the given one replaces `installed` once the libraries have
\* loaded, before XOpenDisplay is tried).
XConnection_new(handler, env, d, installed) ==
  IF ~(Required \subseteq env.loadable)
  THEN [result |-> [state |-> "LibraryOpenError", conn |-> 0], handler |-> installed]
  ELSE IF ~env.display
  THEN [result |-> [state |-> "XOpenDisplayFailed", conn |-> 0], handler |-> handler]
  ELSE [result |-> Ok(d), handler |-> handler]

\* A lazy static that runs its initialiser on every use that finds an error.
lazy_static_retries(backend, env, d, installed) ==
  IF backend.state # "Ok"
  THEN LET r == XConnection_new("x_error_callback", env, d, installed)
       IN [backend |-> r.result, handler |-> r.handler, inited |-> TRUE]
  ELSE [backend |-> backend, handler |-> installed, inited |-> FALSE]

\* lazy_static!: the first use of X11_BACKEND runs XConnection::new and keeps
\* its result, whichever it is; every later use finds that result.
lazy_static(backend, env, d, installed) ==
  IF backend.state = "Uninit"
  THEN LET r == XConnection_new("x_error_callback", env, d, installed)
       IN [backend |-> r.result, handler |-> r.handler, inited |-> TRUE]
  ELSE [backend |-> backend, handler |-> installed, inited |-> FALSE]

\* xlib_xconnection: a clone of the Arc when the backend is Ok, else None.
xlib_xconnection(backend) == IF backend.state = "Ok" THEN <<backend.conn>> ELSE <<>>

\* An error handler that keeps the first error of a burst.
x_error_callback_keeps_first(backend, slots, code) ==
  IF backend.state = "Ok" /\ slots[backend.conn] = <<>>
  THEN [slots EXCEPT ![backend.conn] = <<code>>]
  ELSE slots

\* x_error_callback: with the backend Ok the error replaces whatever the
\* singleton's slot holds; with a failed backend it is dropped.
x_error_callback(backend, slots, code) ==
  IF backend.state = "Ok" THEN [slots EXCEPT ![backend.conn] = <<code>>] ELSE slots

\* A check_errors that reads the slot and leaves it as it is.
check_errors_peeks(slot) == [result |-> slot, slot |-> slot]

\* check_errors: latest_error.lock().take().
check_errors(slot) == [result |-> slot, slot |-> <<>>]

\* An ignore_error that leaves the slot as it is.
ignore_error_keeps(slot) == slot

\* ignore_error: *latest_error.lock() = None.
ignore_error(slot) == <<>>

\* The strong count of a connection's Arc: the clones the components hold and,
\* for the singleton, the one the static X11_BACKEND holds.
strong_count(backend, held, d) ==
  Cardinality(held[d]) + (IF backend = Ok(d) THEN 1 ELSE 0)

\* A release that runs Drop whenever no component holds a clone.
drop_arc_ignores_static(backend, held, disp, c, d) ==
  LET held1 == [held EXCEPT ![d] = @ \ {c}]
  IN [arcs |-> held1,
      display |-> IF held1[d] = {}
                  THEN [disp EXCEPT ![d].closes = @ + 1]
                  ELSE disp]

\* Dropping one Arc clone: Drop for XConnection (XCloseDisplay) runs when the
\* strong count reaches zero.
drop_arc(backend, held, disp, c, d) ==
  LET held1 == [held EXCEPT ![d] = @ \ {c}]
  IN [arcs |-> held1,
      display |-> IF strong_count(backend, held1, d) = 0
                  THEN [disp EXCEPT ![d].closes = @ + 1]
                  ELSE disp]

\* A component asks for the process-wide connection.
XlibXconnection ==
  \E c \in Components, env \in Environments :
    /\ X11_BACKEND = Uninit => Unopened # {}
    /\ LET r == lazy_static(X11_BACKEND, env, NextDisplay, error_handler)
           got == xlib_xconnection(r.backend)
       IN /\ X11_BACKEND' = r.backend
          /\ error_handler' = r.handler
          /\ display' = IF r.inited /\ r.backend.state = "Ok"
                        THEN [display EXCEPT ![r.backend.conn].opened = TRUE]
                        ELSE display
          /\ arcs' = IF got # <<>> THEN [arcs EXCEPT ![got[1]] = @ \cup {c}] ELSE arcs
          /\ x_last' = [NoXLast EXCEPT !.op = "xlib_xconnection", !.who = c, !.env = env,
                          !.backend0 = X11_BACKEND, !.inited = r.inited, !.result = got,
                          !.conn = IF got # <<>> THEN got[1] ELSE 0]
    /\ UNCHANGED <<latest_error, raised_since, LockVars, LoopVars, InputVars>>

\* A component opens a connection of its own and shares it behind an Arc.
XConnectionNew ==
  \E c \in Components, env \in Environments, h \in OtherHandlers :
    /\ Unopened # {}
    /\ LET r == XConnection_new(h, env, NextDisplay, error_handler)
       IN /\ error_handler' = r.handler
          /\ display' = IF r.result.state = "Ok"
                        THEN [display EXCEPT ![r.result.conn].opened = TRUE]
                        ELSE display
          /\ arcs' = IF r.result.state = "Ok"
                     THEN [arcs EXCEPT ![r.result.conn] = {c}]
                     ELSE arcs
          /\ x_last' = [NoXLast EXCEPT !.op = "XConnection::new", !.who = c, !.env = env,
                          !.backend0 = X11_BACKEND, !.conn = r.result.conn,
                          !.result = xlib_xconnection(r.result)]
    /\ UNCHANGED <<X11_BACKEND, latest_error, raised_since, LockVars, LoopVars, InputVars>>

\* Arc::clone: a holder hands a reference to another component.
ArcClone ==
  \E d \in Connections : \E c \in arcs[d], c2 \in Components \ arcs[d] :
    /\ arcs' = [arcs EXCEPT ![d] = @ \cup {c2}]
    /\ x_last' = [NoXLast EXCEPT !.op = "Arc::clone", !.who = c2, !.conn = d,
                    !.backend0 = X11_BACKEND]
    /\ UNCHANGED <<X11_BACKEND, error_handler, display, latest_error, raised_since, LockVars, LoopVars, InputVars>>

\* A holder drops its reference.
ArcDrop ==
  \E d \in Connections : \E c \in arcs[d] :
    /\ LET r == drop_arc(X11_BACKEND, arcs, display, c, d)
       IN arcs' = r.arcs /\ display' = r.display
    /\ x_last' = [NoXLast EXCEPT !.op = "drop", !.who = c, !.conn = d,
                    !.backend0 = X11_BACKEND]
    /\ UNCHANGED <<X11_BACKEND, error_handler, latest_error, raised_since, LockVars, LoopVars, InputVars>>

Open(d) == display[d].opened /\ display[d].closes = 0

\* Xlib reports an error of a request made on an open display and calls the
\* installed handler.  x_error_callback is installed by the initialiser of
\* X11_BACKEND only, so it finds the static initialised.
XErrorRaised ==
  \E code \in ErrorCodes :
    /\ error_handler = "x_error_callback" /\ \E d \in Connections : Open(d)
    /\ Len(raised_since) < MaxErrors
    /\ latest_error' = x_error_callback(X11_BACKEND, latest_error, code)
    /\ raised_since' = IF X11_BACKEND.state = "Ok"
                       THEN Append(raised_since, code)
                       ELSE raised_since
    /\ x_last' = [NoXLast EXCEPT !.op = "x_error_callback",
                    !.backend0 = X11_BACKEND,
                    !.conn = X11_BACKEND.conn, !.result = <<code>>,
                    !.slot0 = IF X11_BACKEND.state = "Ok"
                              THEN latest_error[X11_BACKEND.conn] ELSE <<>>,
                    !.raised0 = raised_since]
    /\ UNCHANGED <<X11_BACKEND, error_handler, display, arcs, LockVars, LoopVars, InputVars>>

Singleton(d) == X11_BACKEND = Ok(d)

\* A holder polls its connection for the latest error.
CheckErrors ==
  \E d \in Connections : \E c \in arcs[d] :
    /\ LET r == check_errors(latest_error[d])
       IN /\ latest_error' = [latest_error EXCEPT ![d] = r.slot]
          /\ x_last' = [NoXLast EXCEPT !.op = "check_errors", !.who = c, !.conn = d,
                          !.backend0 = X11_BACKEND, !.slot0 = latest_error[d],
                          !.raised0 = IF Singleton(d) THEN raised_since ELSE <<>>,
                          !.result = r.result]
    /\ raised_since' = IF Singleton(d) THEN <<>> ELSE raised_since
    /\ UNCHANGED <<X11_BACKEND, error_handler, display, arcs, LockVars, LoopVars, InputVars>>

\* A holder discards whatever error is pending on its connection.
IgnoreError ==
  \E d \in Connections : \E c \in arcs[d] :
    /\ latest_error' = [latest_error EXCEPT ![d] = ignore_error(latest_error[d])]
    /\ x_last' = [NoXLast EXCEPT !.op = "ignore_error", !.who = c, !.conn = d,
                    !.backend0 = X11_BACKEND, !.slot0 = latest_error[d],
                    !.raised0 = IF Singleton(d) THEN raised_since ELSE <<>>]
    /\ raised_since' = IF Singleton(d) THEN <<>> ELSE raised_since
    /\ UNCHANGED <<X11_BACKEND, error_handler, display, arcs, LockVars, LoopVars, InputVars>>

X11Init ==
  /\ X11_BACKEND = Uninit
  /\ error_handler = "default"
  /\ display = [d \in Connections |-> [opened |-> FALSE, closes |-> 0]]
  /\ arcs = [d \in Connections |-> {}]
  /\ latest_error = [d \in Connections |-> <<>>]
  /\ raised_since = <<>>
  /\ x_last = NoXLast
  /\ xt_todo = [t \in 1..NumXThreads |-> <<>>]
  /\ xlock = [l \in {<<"X11_BACKEND", 0>>, <<"latest_error", 1>>, <<"latest_error", 2>>} |-> 0]
  /\ x_once = "new"
  /\ x_installed = FALSE
  /\ x_ok = FALSE

\* ---------------------------------------------------------- specification
Init ==
  /\ X11Init
  /\ InputInit
  /\ pc = "init"
  /\ runner_state = "Uninitialized"
  /\ control_flow = Poll
  /\ event_handler = FALSE
  /\ event_buffer = <<>>
  /\ panic_error = FALSE
  /\ owned_windows = <<>>
  /\ queue = <<>>
  /\ paint = {}
  /\ wtq = <<>>
  /\ wait_until_opt = <<>>
  /\ wt_pc = "top"
  /\ wt_timeout_at = 0
  /\ now = 0
  /\ phase = "start"
  /\ failed = FALSE
  /\ raised = 0
  /\ last = NoLast
  /\ wt_last = NoWtLast

Next ==
  \/ RunReturn
  \/ DispatchHotkey
  \/ DispatchWindowMessage
  \/ DispatchProcessNewEvents
  \/ DispatchWindowPaint
  \/ DispatchTargetPaint
  \/ SendOutsideLoop
  \/ SubclassWindow
  \/ OsPostsMessage
  \/ OsInvalidatesWindow
  \/ Tick
  \/ WaitThreadIteration
  \/ MsgWaitInput
  \/ MsgWaitTimeout

Spec == Init /\ [][Next]_vars

\* The message loop keeps taking messages, the wait thread keeps running and
\* time passes; the operating system need not post anything.
\* The loop's fairness is weak fairness of its five dispatch actions taken
\* together, stated on the state: one of them is enabled exactly when
\* MainEnabled holds, and `last` names a message exactly after one of them.
MainEnabled == InLoop /\ (queue # <<>> \/ paint # {})
MainStepped == last.kind \in {"WM_HOTKEY", "WM_CLOSE", "WM_PAINT", "PROCESS_NEW_EVENTS"}
MainFair == []<>(~MainEnabled) \/ []<>MainStepped
WaitThread == WaitThreadIteration \/ MsgWaitInput \/ MsgWaitTimeout
FairSpec == Spec /\ MainFair /\ WF_vars(WaitThread) /\ WF_vars(Tick)

\* The event loop when the operating system posts no message and invalidates
\* no window once the control flow is Exit.
OsInput ==
  /\ control_flow.kind # "Exit"
  /\ OsPostsMessage \/ OsInvalidatesWindow
ExitNext ==
  \/ RunReturn
  \/ DispatchHotkey
  \/ DispatchWindowMessage
  \/ DispatchProcessNewEvents
  \/ DispatchWindowPaint
  \/ DispatchTargetPaint
  \/ SendOutsideLoop
  \/ SubclassWindow
  \/ OsInput
  \/ Tick
  \/ WaitThreadIteration
  \/ MsgWaitInput
  \/ MsgWaitTimeout
\* The loop takes a message whenever one can be retrieved: weak fairness of
\* the dispatch actions taken together, a step of which is a step that leaves
\* the message's name in `last`.
MainSteps == []<>(~MainEnabled) \/ []<><<MainStepped'>>_vars
ExitSpec ==
  Init /\ [][ExitNext]_vars /\ MainSteps /\ WF_vars(WaitThread) /\ WF_vars(Tick)

\* The event loop with its end: the EventLoop is dropped before run_return is
\* called or after it has returned, and the wait thread runs on.
TeardownNext ==
  \/ Next
  \/ DropEventLoop

TeardownSpec == Init /\ [][TeardownNext]_vars /\ WF_vars(WaitThread) /\ WF_vars(Tick)

\* The X11 connection on its own: the components of the process open, share,
\* poll and release connections while Xlib reports errors.
X11Next ==
  \/ XlibXconnection
  \/ XConnectionNew
  \/ ArcClone
  \/ ArcDrop
  \/ XErrorRaised
  \/ CheckErrors
  \/ IgnoreError

X11Spec == Init /\ [][X11Next]_vars

\* Input is followed from two states the loop passes through: the windows
\* are created and run_return has not been called, and run_return has
\* delivered NewEvents and waits in GetMessageW.
LoopStart ==
  /\ X11Init
  /\ owned_windows = [i \in 1..NumWindows |-> i]
  /\ control_flow = Poll
  /\ event_buffer = <<>> /\ panic_error = FALSE /\ failed = FALSE /\ raised = 0
  /\ queue = <<>> /\ wtq = <<>> /\ now = 0
  /\ wait_until_opt = <<>> /\ wt_pc = "top" /\ wt_timeout_at = 0 /\ wt_last = NoWtLast
  /\ \/ /\ pc = "init" /\ runner_state = "Uninitialized" /\ event_handler = FALSE
        /\ paint = {} /\ phase = "start" /\ last = NoLast
     \/ /\ pc = "loop" /\ runner_state = "HandlingMainEvents" /\ event_handler = TRUE
        /\ paint = {thread_msg_target} /\ phase = "main"
        /\ last = [NoLast EXCEPT !.kind = "run_return", !.events = <<NewEvents>>]

InputStart == LoopStart /\ InputInit

\* A WM_DPICHANGED is about to be sent to a window that is on one of two
\* monitors: the new DPI is that monitor's, the suggested rectangle has the
\* window's size rescaled and lies at or around the monitor's corner.
DpiInputs ==
  {DpiIn(window, monitors[on].dpi,
         Rect(monitors[on].rect.left + dx, monitors[on].rect.top + dy,
              monitors[on].rect.left + dx
                + Rescale(Size(client.width + 2 * frame, 0), old_dpi, monitors[on].dpi).width,
              monitors[on].rect.top + dy
                + Rescale(Size(client.height + 2 * frame, 0), old_dpi, monitors[on].dpi).width),
         Rect(monitors[on].rect.left + 1, monitors[on].rect.top + 1,
              monitors[on].rect.left + 1 + client.width + 2 * frame,
              monitors[on].rect.top + 1 + client.height + 2 * frame),
         frame, mode = "fullscreen", mode = "maximized", mode \in {"dragging", "dragged"},
         IF mode \in {"dragging", "dragged"}
         THEN monitors[on].rect.left + dx + (IF mode = "dragged" THEN 1 ELSE 0) ELSE 0,
         monitors, prefer, written) :
     window \in Windows, monitors \in Layouts, on \in {1, 2}, old_dpi \in {BASE_DPI, HIGH_DPI},
     client \in {Size(2, 2), Size(4, 2)}, frame \in {0, 1},
     dx \in {-5, -2, 0, 3}, dy \in {-3, 0, 2},
     mode \in {"normal", "fullscreen", "maximized", "dragging", "dragged"},
     prefer \in {1, 2}, written \in {<<>>, <<Size(5, 3)>>}}

DpiStart ==
  /\ LoopStart
  /\ window_state = [w \in Windows |-> NewWindowState]
  /\ mouse_capture = 0
  /\ focus = 0
  /\ in_last = NoInLast
  /\ SubclassInit
  /\ ProxyInit
  /\ BoxInit
  /\ ExecInit
  /\ dpi_last = NoDpiLast
  /\ \E in \in DpiInputs, old_dpi \in {BASE_DPI, HIGH_DPI} :
       /\ in.suggested_rect.right - in.suggested_rect.left
            = Rescale(Size(in.window_rect.right - in.window_rect.left, 0),
                      old_dpi, in.new_dpi).width
       /\ dpi_in = in
       /\ scale_factor = [w \in Windows |-> IF w = in.window THEN old_dpi ELSE BASE_DPI]

DpiNext == DispatchDpiChanged
DpiSpec == DpiStart /\ [][DpiNext]_vars

\* Keyboard messages and nothing else.
KeyNext == DispatchKey

KeySpec == InputStart /\ [][KeyNext]_vars

\* Keys are pressed and the focus comes and goes, with the modifier keys held
\* changing in between.
ModifierNext ==
  \/ DispatchFocusedKey
  \/ DispatchSetFocus
  \/ DispatchKillFocus

ModifierSpec == InputStart /\ [][ModifierNext]_vars

\* The pointer moves over the windows and leaves them.
PointerNext ==
  \/ DispatchMouseMove
  \/ DispatchMouseLeave

PointerSpec == InputStart /\ [][PointerNext]_vars

\* Mouse buttons are pressed and released and the capture passes between the
\* windows.
CaptureNext ==
  \/ DispatchButtonDown
  \/ DispatchButtonUp
  \/ DispatchCaptureChanged

CaptureSpec == InputStart /\ [][CaptureNext]_vars

\* Touch and pen input and nothing else.
TouchNext == DispatchPointer

TouchSpec == InputStart /\ [][TouchNext]_vars

\* Raw keyboard reports and nothing else.
\* The window callback, entered by the loop and re-entered from inside the
\* application callback.
CallbackNext == CallbackEnter \/ CallbackStep \/ CallbackReturn
CallbackSpec == InputStart /\ [][CallbackNext]_vars

\* Windows are created, asked to close, and destroyed.
LifecycleNext ==
  \/ RegisterWindow
  \/ DispatchDestroy
  \/ OsPostsMessage
  \/ DispatchWindowMessage
LifecycleSpec == InputStart /\ [][LifecycleNext]_vars

\* Other threads send user events while the loop runs.
ProxyNext ==
  \/ ProxyPostMessage
  \/ ProxyChannelSend
  \/ UserEventBlocks
  \/ UserEventReceived
  \/ UserEventSkipped
  \/ RunReturn
  \/ DropEventLoop
ProxySpec == InputStart /\ [][ProxyNext]_vars
\* Every sending thread runs on, and a recv() that can return does.
FairProxySpec ==
  /\ ProxySpec
  /\ WF_vars(ProxyChannelSend)
  /\ WF_vars(blocked_in = "recv" /\ UserEventReceived)

\* A paint message is dispatched while the runner buffers: by a message loop
\* that runs inside the application callback (a modal loop, UpdateWindow), or
\* before run_return has attached the callback.
NestedWindowPaint ==
  /\ should_buffer(Machine(Quiet))
  /\ \E hwnd \in paint \cap Range(owned_windows) :
       LET m == public_window_callback_inner(
                  [Machine(Quiet) EXCEPT !.paint = @ \ {hwnd}], hwnd, "WM_PAINT")
       IN Commit([m |-> m, pc |-> pc, resumed |-> 0], "WM_PAINT", hwnd)

NestedTargetPaint ==
  /\ should_buffer(Machine(Quiet))
  /\ thread_msg_target \in paint
  /\ LET m == thread_event_target_callback(
                [Machine(Quiet) EXCEPT !.paint = @ \ {thread_msg_target}], "WM_PAINT")
     IN Commit([m |-> m, pc |-> pc, resumed |-> 0], "WM_PAINT", thread_msg_target)

\* The states in which the runner buffers: no callback attached yet
\* (Uninitialized), or the callback taken while it runs, which it does in
\* HandlingMainEvents (NewEvents and the events of the main part),
\* HandlingRedrawEvents (MainEventsCleared, RedrawRequested), Idle
\* (RedrawEventsCleared: move_state_to stores the new state before it calls)
\* and Destroyed (LoopDestroyed).
BufferingStart ==
  /\ X11Init /\ InputInit
  /\ owned_windows = [i \in 1..NumWindows |-> i]
  /\ event_handler = FALSE
  /\ panic_error = FALSE /\ failed = FALSE /\ raised = 0
  /\ queue = <<>> /\ wtq = <<>> /\ now = 0
  /\ wait_until_opt = <<>> /\ wt_pc = "top" /\ wt_timeout_at = 0 /\ wt_last = NoWtLast
  /\ last = NoLast
  /\ control_flow \in {Poll, Wait}
  /\ event_buffer \in {<<>>, <<CloseRequested(1)>>}
  /\ paint \in SUBSET (Range(owned_windows) \cup {thread_msg_target})
  /\ Cardinality(paint) <= NumWindows
  /\ \/ pc = "init" /\ runner_state = "Uninitialized" /\ phase = "start"
     \/ /\ pc = "loop"
        /\ \/ runner_state = "HandlingMainEvents" /\ phase = "main"
           \/ runner_state = "HandlingRedrawEvents" /\ phase = "redraw"
           \/ runner_state = "Idle" /\ phase = "cleared"
           \/ runner_state = "Destroyed" /\ phase = "destroyed"

BufferedPaintNext ==
  \/ NestedWindowPaint
  \/ NestedTargetPaint
  \/ OsInvalidatesWindow
BufferedPaintSpec == BufferingStart /\ [][BufferedPaintNext]_vars

\* Wake-at requests are boxed, posted, and taken back by the wait thread.
WaitBoxNext ==
  \/ BoxedWaitUntil
  \/ BoxedCancel
  \/ BoxedPass
  \/ BoxedWaitInput
  \/ MsgWaitTimeout
  \/ Tick
WaitBoxSpec == InputStart /\ [][WaitBoxNext]_vars

\* Functions are handed to the executor from the loop's thread and from
\* others, while the loop starts, runs, fails or is dropped.
ExecNext ==
  \/ ExecuteInThread
  \/ DispatchExec
  \/ RunReturn
  \/ DropEventLoop
ExecSpec == InputStart /\ [][ExecNext]_vars

RawInputNext == DispatchRawInput

RawInputSpec == InputStart /\ [][RawInputNext]_vars

\* ================================================================ claims
IsPrefix(s, t) == Len(s) <= Len(t) /\ \A i \in 1..Len(s) : s[i] = t[i]
Has(evs, type) == \E i \in 1..Len(evs) : evs[i].type = type
Count(evs, type) == Cardinality({i \in 1..Len(evs) : evs[i].type = type})

\* C1: the events handed to the callback follow the cycle NewEvents, non-redraw
\* events, one MainEventsCleared, RedrawRequested events only, one
\* RedrawEventsCleared; what was buffered before run_return follows the first
\* NewEvents in arrival order; and a paint handler that returns to the loop
\* has closed its cycle with RedrawEventsCleared.
C1_EventOrder ==
  /\ phase # "bad"
  /\ last.kind = "run_return" =>
       \/ IsPrefix(last.events, <<NewEvents>> \o last.buffer0)
       \/ IsPrefix(<<NewEvents>> \o last.buffer0, last.events)
  /\ (last.kind = "WM_PAINT" /\ pc = "loop") => phase = "cleared"

\* A window's paint handler that ran a whole cycle, with an event buffered
\* during NewEvents delivered before MainEventsCleared.
C1_Witness ==
  /\ last.kind = "WM_PAINT" /\ last.hwnd \in Windows /\ pc = "loop"
  /\ Len(last.events) = 5
  /\ last.events[1] = NewEvents
  /\ last.events[2].type = "CloseRequested"
  /\ last.events[3] = MainEventsCleared
  /\ last.events[4] = RedrawRequested(last.hwnd)
  /\ last.events[5] = RedrawEventsCleared

\* The RedrawRequested events of a handler, as the windows they name.
Redrawn(evs) == SelectSeq(evs, LAMBDA e : e.type = "RedrawRequested")
Pos(w) == CHOOSE i \in 1..Len(owned_windows) : owned_windows[i] = w
\* The windows a paint handler has to redraw: the one whose message it is and
\* every other registered window with a paint pending.
Batch ==
  (last.paint0 \cap Range(owned_windows)) \cup (IF last.hwnd \in Windows THEN {last.hwnd} ELSE {})
ManagedPaint == last.kind = "WM_PAINT" /\ pc # "unwound" /\ last.events # <<>>

\* C2: a paint message processed outside a redraw flush redraws, in that one
\* handler, its own window and every other registered window whose paint is
\* pending, each once (and no window twice); the RedrawRequested events are
\* contiguous, after the one MainEventsCleared and before the one
\* RedrawEventsCleared.
C2_Coalesced ==
  ManagedPaint =>
    LET evs == last.events
        rr == {i \in 1..Len(evs) : evs[i].type = "RedrawRequested"}
    IN /\ Count(evs, "MainEventsCleared") = 1
       /\ Count(evs, "RedrawEventsCleared") = 1
       /\ \A w \in Batch : Cardinality({i \in rr : evs[i].window = w}) = 1
       /\ \A w \in Windows : Cardinality({i \in rr : evs[i].window = w}) <= 1
       /\ \A i \in rr : /\ \E a \in 1..(i - 1) : evs[a] = MainEventsCleared
                         /\ \E b \in (i + 1)..Len(evs) : evs[b] = RedrawEventsCleared
       /\ \A i \in rr, k \in rr : \A j \in i..k : j \in rr

\* Two windows redrawn by the handler of one paint message, after an input
\* event of the same cycle.
C2_Witness ==
  /\ ManagedPaint /\ last.hwnd \in Windows /\ last.paint0 \cap Windows # {}
  /\ Len(Redrawn(last.events)) = 2
  /\ Has(last.events, "CloseRequested")

\* C3 as stated: the RedrawRequested events of a handler follow the order in
\* which the windows were registered.
C3_RegistrationOrder ==
  ManagedPaint =>
    LET rr == Redrawn(last.events)
    IN \A i \in 1..Len(rr), j \in 1..Len(rr) : i < j => Pos(rr[i].window) < Pos(rr[j].window)

\* C3 amended: the other windows with a pending paint are redrawn in
\* registration order, and the window whose paint message started the flush
\* is redrawn after all of them.
C3_StarterLast ==
  ManagedPaint =>
    LET rr == Redrawn(last.events)
    IN \A i \in 1..Len(rr), j \in 1..Len(rr) :
         i < j => /\ rr[i].window # last.hwnd
                  /\ rr[j].window # last.hwnd => Pos(rr[i].window) < Pos(rr[j].window)

\* The first registered window's paint message started the flush and a later
\* window was redrawn before it.
C3_Witness ==
  /\ ManagedPaint /\ last.hwnd \in Windows
  /\ Len(Redrawn(last.events)) = 2
  /\ Pos(Redrawn(last.events)[1].window) > Pos(last.hwnd)
  /\ Redrawn(last.events)[2].window = last.hwnd

\* C4: LoopDestroyed is delivered once, as the last event, when run_return
\* leaves the loop on Exit; the runner is reset after it, and a native message
\* handled after that reaches no callback.
C4_NothingAfterLoopDestroyed ==
  /\ phase # "late"
  /\ pc = "returned" =>
       /\ phase = "destroyed"
       /\ runner_state = "Destroyed" /\ ~event_handler
       /\ last.kind = "outside" => last.events = <<>>
  /\ Has(last.events, "LoopDestroyed") =>
       /\ pc = "returned"
       /\ Count(last.events, "LoopDestroyed") = 1
       /\ Last(last.events) = LoopDestroyed
  /\ phase = "destroyed" => pc = "returned"

\* A window message handled after run_return has returned.
C4_Witness == pc = "returned" /\ last.kind = "outside" /\ phase = "destroyed"

\* C5 as stated: a failure of the callback is re-raised by run_return, once
\* and with the runner reset; run_return never returns normally from a loop
\* whose callback has failed.
C5_FailureReraisedOnce ==
  /\ raised <= 1
  /\ pc = "unwound" =>
       /\ raised = 1 /\ failed
       /\ runner_state = "Destroyed" /\ ~panic_error /\ ~event_handler
  /\ pc = "returned" => ~failed

ToMain == [to |-> "main", message |-> "PROCESS_NEW_EVENTS", lparam |-> 0]
WakeAt(t) == [to |-> "wait_thread", message |-> "WAIT_UNTIL", lparam |-> t]
CancelWait == [to |-> "wait_thread", message |-> "CANCEL_WAIT_UNTIL", lparam |-> 0]

\* C6: a handler that delivers RedrawEventsCleared then acts once on the
\* control flow the callback left: Poll posts one process-new-events message
\* to the main thread, Wait posts nothing, WaitUntil(t) posts one wake-at(t)
\* to the wait thread and nothing to the main thread, Exit posts nothing and
\* run_return delivers LoopDestroyed and returns.
C6_ControlFlowAction ==
  /\ Len(last.pcf) <= 1
  /\ Has(last.events, "RedrawEventsCleared") => Len(last.pcf) = 1
  /\ last.pcf = <<>> => last.posts \in {<<>>, <<CancelWait>>}
  /\ last.pcf # <<>> =>
       LET cf == last.pcf[1]
       IN /\ pc = "loop" => cf = control_flow
          /\ cf.kind = "Poll" => last.posts = <<ToMain>>
          /\ cf.kind = "Wait" => last.posts = <<>>
          /\ cf.kind = "WaitUntil" => last.posts = <<WakeAt(cf.until)>>
          /\ cf.kind = "Exit" =>
               /\ last.posts = <<>>
               /\ pc = "returned" /\ Last(last.events) = LoopDestroyed

\* A cycle that ended with WaitUntil: one wake-at request, to the wait thread.
C6_Witness ==
  /\ last.pcf = <<WaitUntil(MaxTime)>> /\ last.posts = <<WakeAt(MaxTime)>>
  /\ pc = "loop" /\ runner_state = "Idle"
  /\ Last(last.events) = RedrawEventsCleared

Fires(t, deadline) == ~(t < deadline)

\* C8: wait_until_opt holds at most one deadline; a wake-at request received
\* while one is armed replaces it, and what fires afterwards is the new one.
C8_OneDeadline ==
  /\ Len(wait_until_opt) <= 1
  /\ wt_pc = "waiting" => wait_until_opt # <<>>
  /\ (wt_last.how = "iteration" /\ wt_last.recv.message = "WAIT_UNTIL") =>
       LET new == wt_last.recv.lparam
       IN /\ wait_until_opt = IF Fires(now, new) THEN <<>> ELSE <<new>>
          /\ wt_last.posted = IF Fires(now, new) THEN <<new>> ELSE <<>>
          /\ wt_pc = "waiting" =>
               wt_timeout_at = now + TicksPerMs * SaturatingSub(dur2timeout(new - now), 1)

\* A wake-at request for another instant arrived while a deadline was armed.
C8_Witness ==
  /\ wt_last.how = "iteration" /\ wt_last.recv.message = "WAIT_UNTIL"
  /\ wt_last.armed # <<>> /\ wt_last.armed # <<wt_last.recv.lparam>>
  /\ wait_until_opt = <<wt_last.recv.lparam>>

\* C9: the wait thread posts to the main thread only when an armed deadline
\* fires (the bounded wait timed out, or the deadline had passed when it was
\* looked at), one message per firing, and no deadline is armed afterwards;
\* a step of the idle thread posts nothing.
C9_SignalOnFiring ==
  /\ wt_last.signals = (IF wt_last.posted # <<>> THEN 1 ELSE 0)
  /\ wt_last.posted # <<>> =>
       /\ wait_until_opt = <<>> /\ wt_pc = "top"
       /\ Last(queue) = Msg("PROCESS_NEW_EVENTS", thread_msg_target)
       /\ \/ wt_last.how = "timeout" /\ wt_last.posted = wt_last.armed
                                     /\ now >= wt_timeout_at
          \/ wt_last.how = "iteration" /\ Fires(now, wt_last.posted[1])
                                       /\ wt_last.posted = receive(wt_last.armed, wt_last.recv)
  /\ (wt_last.how # "none" /\ wt_last.armed = <<>> /\ wt_last.recv.message # "WAIT_UNTIL") =>
       wt_last.signals = 0 /\ wait_until_opt = <<>>

\* The bounded wait timed out and the signal was posted.
C9_Witness ==
  /\ wt_last.how = "timeout" /\ wt_last.posted # <<>> /\ wt_last.signals = 1
  /\ wait_until_opt = <<>>

\* C10: a cancel received with no deadline armed leaves the wait thread idle
\* at the top of its loop and posts nothing; a second cancel after any cancel
\* changes nothing.
C10_CancelIdempotent ==
  /\ (wt_last.how = "iteration" /\ wt_last.recv.message = "CANCEL_WAIT_UNTIL") =>
       /\ wait_until_opt = <<>> /\ wt_pc = "top"
       /\ wt_last.signals = 0 /\ wt_last.posted = <<>>
  /\ LET cancel == WtMsg("CANCEL_WAIT_UNTIL", 0)
         one == wait_thread_iteration(wait_until_opt, <<cancel>>, now)
         two == wait_thread_iteration(one.opt, <<cancel>>, now)
         both == wait_thread_iteration(wait_until_opt, <<cancel, cancel>>, now)
     IN /\ one.opt = <<>> /\ one.pc = "top" /\ one.posted = <<>>
        /\ two.opt = one.opt /\ two.pc = one.pc /\ two.posted = one.posted
        /\ both.q = <<cancel>> /\ both.opt = one.opt

\* A cancel received by the idle wait thread.
C10_Witness ==
  /\ wt_last.how = "iteration" /\ wt_last.recv.message = "CANCEL_WAIT_UNTIL"
  /\ wt_last.armed = <<>> /\ wait_until_opt = <<>> /\ wt_pc = "top"

\* C11: a deadline the wait thread drops, on a cancel or on a newer wake-at
\* request, is dropped without a signal and cannot fire later: after a cancel
\* nothing is armed, after a newer request only the new deadline is armed or
\* fires; and a cancel takes nothing back from the main thread's queue.
C11_CancelledNeverFires ==
  [][wt_last'.how = "iteration" =>
       /\ wt_last'.recv.message = "CANCEL_WAIT_UNTIL" =>
            /\ wait_until_opt' = <<>> /\ wt_pc' = "top"
            /\ queue' = queue
       /\ (wt_last'.recv.message = "WAIT_UNTIL" /\ wait_until_opt # <<>>) =>
            /\ wait_until_opt' \in {<<>>, <<wt_last'.recv.lparam>>}
            /\ \/ queue' = queue
               \/ /\ queue' = Append(queue, Msg("PROCESS_NEW_EVENTS", thread_msg_target))
                  /\ wt_last'.posted = <<wt_last'.recv.lparam>>
                  /\ Fires(now, wt_last'.recv.lparam)]_vars

\* A cancel reached the wait thread while a deadline that had not fired was
\* armed and a message was waiting in the main thread's queue.
C11_Witness ==
  /\ wt_last.how = "iteration" /\ wt_last.recv.message = "CANCEL_WAIT_UNTIL"
  /\ wt_last.armed # <<>> /\ wait_until_opt = <<>> /\ wt_last.signals = 0
  /\ queue # <<>>

\* ------------------------------------------------- the X11 connection
\* C12: check_errors returns what the slot held and leaves the slot empty in
\* the same step, so a check_errors that follows at once returns success; and
\* a check_errors of the process-wide connection with no error recorded since
\* the previous poll returns success.
C12_CheckErrorsTakes ==
  x_last.op = "check_errors" =>
    /\ x_last.result = x_last.slot0
    /\ latest_error[x_last.conn] = <<>>
    /\ check_errors(latest_error[x_last.conn]).result = <<>>
    /\ (Singleton(x_last.conn) /\ x_last.raised0 = <<>>) => x_last.result = <<>>

\* A check_errors that returned an error.
C12_Witness ==
  /\ x_last.op = "check_errors" /\ x_last.result # <<>>
  /\ latest_error[x_last.conn] = <<>>

\* C13: a slot never holds more than one error; the slot of the process-wide
\* connection holds the last error recorded since it was polled, whatever
\* came before it, and that is the error check_errors returns.
C13_LatestErrorOnly ==
  /\ \A d \in Connections :
       /\ Len(latest_error[d]) <= 1
       /\ Singleton(d) =>
            latest_error[d] =
              IF raised_since = <<>> THEN <<>> ELSE <<Last(raised_since)>>
  /\ (x_last.op = "x_error_callback" /\ X11_BACKEND.state = "Ok") =>
       latest_error[X11_BACKEND.conn] = x_last.result
  /\ (x_last.op = "check_errors" /\ x_last.raised0 # <<>>) =>
       x_last.result = <<Last(x_last.raised0)>>

\* Two different errors were raised between two polls, and check_errors
\* returned the second.
C13_Witness ==
  /\ x_last.op = "check_errors" /\ Len(x_last.raised0) = 2
  /\ x_last.raised0[1] # x_last.raised0[2]
  /\ x_last.result = <<x_last.raised0[2]>>

\* C14: ignore_error empties the slot of its connection and touches nothing
\* else, so a check_errors that follows at once returns success; on an empty
\* slot it changes nothing at all.
C14_IgnoreErrorDiscards ==
  [][x_last'.op = "ignore_error" =>
       LET d == x_last'.conn
       IN /\ latest_error' = [latest_error EXCEPT ![d] = <<>>]
          /\ check_errors(latest_error'[d]).result = <<>>
          /\ x_last'.result = <<>>
          /\ UNCHANGED <<X11_BACKEND, error_handler, display, arcs>>
          /\ latest_error[d] = <<>> => UNCHANGED <<latest_error, raised_since>>]_vars

\* ignore_error discarded a pending error.
C14_Witness ==
  /\ x_last.op = "ignore_error" /\ x_last.slot0 # <<>>
  /\ latest_error[x_last.conn] = <<>>

\* C15: the process-wide connection is opened by the first use of the
\* singleton and by no later one; a missing required library gives
\* LibraryOpenError, a display that does not open XOpenDisplayFailed, and the
\* result, failure included, is kept: with a failure every xlib_xconnection
\* returns None whatever the environment has become, with a success every one
\* returns a reference to the one connection.
C15_OpenedOnce ==
  /\ x_last.op = "xlib_xconnection" => (x_last.inited <=> x_last.backend0 = Uninit)
  /\ x_last.op # "xlib_xconnection" => ~x_last.inited
  /\ error_handler = "x_error_callback" => X11_BACKEND # Uninit
  /\ (x_last.op # "none" /\ x_last.backend0 # Uninit) => X11_BACKEND = x_last.backend0
  /\ x_last.inited =>
       IF ~(Required \subseteq x_last.env.loadable)
       THEN X11_BACKEND.state = "LibraryOpenError"
       ELSE IF ~x_last.env.display
       THEN X11_BACKEND.state = "XOpenDisplayFailed"
       ELSE X11_BACKEND.state = "Ok"
  /\ x_last.op = "XConnection::new" =>
       (x_last.result # <<>> <=>
          (Required \subseteq x_last.env.loadable /\ x_last.env.display))
  /\ x_last.op = "xlib_xconnection" =>
       /\ X11_BACKEND # Uninit
       /\ X11_BACKEND \in XNotSupported => x_last.result = <<>>
       /\ X11_BACKEND.state = "Ok" =>
            /\ x_last.result = <<X11_BACKEND.conn>>
            /\ x_last.who \in arcs[X11_BACKEND.conn]
  /\ X11_BACKEND.state = "Ok" => Open(X11_BACKEND.conn)

\* The singleton had failed, everything would load and the display would
\* open, and xlib_xconnection returned None.
C15_Witness ==
  /\ x_last.op = "xlib_xconnection" /\ x_last.backend0 \in XNotSupported
  /\ x_last.env.loadable = Libraries /\ x_last.env.display
  /\ x_last.result = <<>>

Out == last.events \o SubSeq(event_buffer, in_last.buffered0 + 1, Len(event_buffer))

\* C17: a key-down or key-up message handled while the modifiers differ from
\* the window's modifiers_state stores the new modifiers and sends one
\* ModifiersChanged and then its KeyboardInput events; every KeyboardInput the
\* callback receives or the runner buffers comes after that ModifiersChanged.
\* With the modifiers unchanged no ModifiersChanged is sent.
C17_ModifiersBeforeKeys ==
  in_last.message \in KeyMessages =>
    LET w == in_last.window
        modifiers == in_last.input.modifiers
        changed == modifiers # in_last.ws0.modifiers_state
        keys == [i \in 1..in_last.input.keys |-> KeyboardInput(w, i)]
    IN /\ window_state[w].modifiers_state = modifiers
       /\ in_last.sent = IF changed THEN <<ModifiersChanged(w, modifiers)>> \o keys ELSE keys
       /\ \A i \in 1..Len(Out) :
            Out[i].type = "KeyboardInput" =>
              /\ changed => \E j \in 1..(i - 1) : Out[j] = ModifiersChanged(w, modifiers)
              /\ \A j \in (i + 1)..Len(Out) : Out[j].type # "ModifiersChanged"

\* The callback received ModifiersChanged and then the key events of one
\* message.
C17_Witness ==
  /\ in_last.message \in KeyMessages /\ pc = "loop"
  /\ in_last.input.modifiers # in_last.ws0.modifiers_state
  /\ in_last.input.keys = MaxKeyEvents
  /\ last.events = <<ModifiersChanged(in_last.window, in_last.input.modifiers)>>
                     \o [i \in 1..MaxKeyEvents |-> KeyboardInput(in_last.window, i)]

\* C18: a pointer move sends CursorEntered exactly when the cursor was outside
\* the window and CursorMoved exactly when its position is not the recorded
\* one, and records the position; so a move that repeats the move before it
\* sends neither, and the callback receives no CursorMoved for it.
C18_SpuriousMovesDropped ==
  in_last.message = "WM_MOUSEMOVE" =>
    LET w == in_last.window
        position == in_last.input.position
    IN /\ Count(in_last.sent, "CursorEntered") = IF in_last.ws0.in_window THEN 0 ELSE 1
       /\ Count(in_last.sent, "CursorMoved") =
            IF in_last.ws0.last_position = <<position>> THEN 0 ELSE 1
       /\ window_state[w].in_window
       /\ window_state[w].last_position = <<position>>
       /\ in_last.prev_move = <<w, position>> =>
            /\ in_last.sent = <<>>
            /\ ~Has(Out, "CursorMoved") /\ ~Has(Out, "CursorEntered")
       /\ Count(Out, "CursorMoved") <= Count(in_last.sent, "CursorMoved")
       /\ Count(Out, "CursorEntered") <= Count(in_last.sent, "CursorEntered")

\* A move that repeated the move before it, on the same window at the same
\* position, and sent nothing.
C18_Witness ==
  /\ in_last.message = "WM_MOUSEMOVE"
  /\ in_last.prev_move = <<in_last.window, in_last.input.position>>
  /\ in_last.ws0.in_window /\ in_last.sent = <<>>

\* C19: WM_CAPTURECHANGED sets the capture counter of its window to zero when
\* the window gaining the capture is another one (or none) and leaves it when
\* it is the window itself: a button pressed on the window that already has
\* the capture counts one more, and takes the counter of another window that
\* had the capture to zero.
C19_CaptureChanged ==
  LET w == in_last.window
  IN /\ in_last.message = "WM_CAPTURECHANGED" =>
          \A v \in Windows :
            window_state[v].capture_count =
              IF v = w /\ in_last.input.lparam # w THEN 0 ELSE in_last.counts0[v]
     /\ in_last.message \in ButtonDown =>
          /\ mouse_capture = w
          /\ \A v \in Windows :
               window_state[v].capture_count =
                 IF v = w THEN in_last.counts0[w] + 1
                 ELSE IF v = in_last.capture0 THEN 0 ELSE in_last.counts0[v]

\* A second button was pressed on the window that had the capture, and its
\* counter went from one to two.
C19_Witness ==
  /\ in_last.message \in ButtonDown /\ in_last.capture0 = in_last.window
  /\ in_last.counts0[in_last.window] = 1
  /\ window_state[in_last.window].capture_count = 2

\* C20: a raw pressure of 0 or above 1024 normalises to no force, and a
\* pressure p of 1..1024 to the force p / 1024, unclamped; the Touch event of
\* a pointer message carries that force when the pointer is a touch or a pen
\* whose info could be read, and none otherwise; every force the callback
\* receives is above 0 and at most 1.
C20_PressureNormalised ==
  in_last.message \in PointerMessages =>
    LET info == in_last.input.pointer
        p == info.pressure
        force == normalize_pointer_pressure(p)
        read == info.pointerType \in {"PT_TOUCH", "PT_PEN"} /\ info.got
    IN /\ (p = 0 \/ p > 1024) => force = <<>>
       /\ (1 <= p /\ p <= 1024) =>
            /\ force = <<Normalized(p, 1024)>>
            /\ 0 < force[1].num /\ force[1].num <= force[1].den
       /\ in_last.sent = <<Touch(in_last.window, IF read THEN force ELSE <<>>)>>
       /\ \A i \in 1..Len(Out) :
            Out[i].type = "Touch" =>
              /\ Out[i] = in_last.sent[1]
              /\ Out[i].data = IF read /\ 1 <= p /\ p <= 1024 THEN p ELSE -1

\* The callback received the Touch event of a touch at full pressure.
C20_Witness ==
  /\ in_last.message \in PointerMessages /\ pc = "loop"
  /\ in_last.input.pointer = PointerInfo("PT_TOUCH", TRUE, PressureScale)
  /\ last.events = <<Touch(in_last.window, <<Normalized(1024, 1024)>>)>>

\* ------------------------------------------------ the managing invocation
\* C30: of the paint handlers that run for one paint message taken by the
\* loop, the nested ones included, exactly one manages the flush when the
\* runner is not redrawing on entry (and, for the thread target, is handling
\* events; no failure of the callback is recorded, or the handler's body is
\* skipped), and none otherwise: the control flow is processed once or not at
\* all, MainEventsCleared and RedrawEventsCleared are delivered at most once
\* and only by a managing handler, every window is redrawn at most once, and
\* the thread target's handler delivers nothing when the cycle is closed.
C30_OneManagingInvocation ==
  [][(last'.kind = "WM_PAINT" /\ pc = "loop") =>
       LET target == last'.hwnd = thread_msg_target
           manages == ~panic_error
                        /\ ~(runner_state = "HandlingRedrawEvents")
                        /\ (target => runner_state # "Idle")
           evs == last'.events
       IN /\ Len(last'.pcf) = IF manages THEN 1 ELSE 0
          /\ Count(evs, "MainEventsCleared") <= Len(last'.pcf)
          /\ Count(evs, "RedrawEventsCleared") <= Len(last'.pcf)
          /\ \A w \in Windows :
               Cardinality({i \in 1..Len(evs) : evs[i] = RedrawRequested(w)}) <= 1
          /\ (target /\ ~manages) => evs = <<>>]_vars

\* A window's paint handler managed the flush and the paint handler of the
\* other window ran nested in it: two RedrawRequested, the control flow
\* processed once.
C30_Witness ==
  /\ last.kind = "WM_PAINT" /\ last.hwnd \in Windows /\ pc = "loop"
  /\ last.paint0 \cap Windows # {}
  /\ Len(Redrawn(last.events)) = 2
  /\ Len(last.pcf) = 1
  /\ Count(last.events, "RedrawEventsCleared") = 1

\* ------------------------------------------------------ the wait thread's end
\* C26: once the EventLoop is dropped and its message target destroyed, the
\* wait thread's loop ends.
C26_EndsWithItsTarget == (pc = "dropped") ~> (wt_pc = "exited")

\* The wait thread leaves its loop in no reachable state: not on a cancel, not
\* after firing, not while a deadline is armed, and not after the drop.
C26_NeverEnds == wt_pc # "exited"

\* The EventLoop is dropped and the wait thread is back in GetMessageW, with
\* nothing to receive.
C26_Witness ==
  /\ pc = "dropped" /\ wt_pc = "top" /\ wait_until_opt = <<>> /\ wtq = <<>>

\* ------------------------------------------------ the wake before the deadline
\* C29: a process-new-events message handled while the control flow is
\* WaitUntil(t) delivers NewEvents at an instant that is not before t.
C29_NotBeforeDeadline ==
  [][(last'.kind = "PROCESS_NEW_EVENTS" /\ control_flow.kind = "WaitUntil"
        /\ Has(last'.events, "NewEvents"))
       => now' >= control_flow.until]_vars

\* ------------------------------------------------------- raw keyboard input
\* C25: a raw keyboard report sends no Key event when its scan code is 0xE11D
\* or 0xE02A, when its virtual key is Shift and its code a numeric-pad digit
\* or decimal, or when its message is neither a key-down nor a key-up; any
\* other keyboard report sends exactly one Key event, Pressed for a key-down
\* and Released for a key-up, and the callback receives no other.
C25_RawKeyQuirks ==
  (in_last.message = "WM_INPUT" /\ in_last.input.raw.dwType = "RIM_TYPEKEYBOARD") =>
    LET keyboard == in_last.input.raw
        down == keyboard.Message \in {"WM_KEYDOWN", "WM_SYSKEYDOWN"}
        up == keyboard.Message \in {"WM_KEYUP", "WM_SYSKEYUP"}
        first_half == raw_scancode(keyboard) \in FirstHalves
        fake_shift == keyboard.VKey = "VK_SHIFT"
                        /\ raw_code(keyboard) \in {"Numpad0", "NumpadDecimal"}
        keys == SelectSeq(in_last.sent, LAMBDA e : e.type = "Key")
    IN /\ (first_half \/ fake_shift \/ (~down /\ ~up)) => keys = <<>>
       /\ ~(first_half \/ fake_shift \/ (~down /\ ~up)) =>
            /\ Len(keys) = 1
            /\ keys[1].data = IF down THEN Pressed ELSE Released
       /\ \A i \in 1..Len(Out) : Out[i].type = "Key" => keys = <<Out[i]>>

\* The first report of Pause, a left Ctrl with the E1 extension, was
\* swallowed: the handler sent nothing.
C25_Witness ==
  /\ in_last.message = "WM_INPUT"
  /\ in_last.input.raw = RawInput("RIM_TYPEKEYBOARD", "WM_KEYDOWN", {"RI_KEY_E1"}, 29, "VK_A")
  /\ in_last.sent = <<>> /\ pc = "loop"

C22_FreedAtDepthZero ==
  /\ \A w \in Windows :
       LET inflight == Cardinality({i \in 1..Len(stack) : stack[i].window = w})
       IN /\ freed[w] <= 1
          /\ freed[w] = 1 => (subclass_removed[w] /\ recurse_depth[w] = 0 /\ inflight = 0)
          /\ recurse_depth[w] = inflight
          /\ (subclass_removed[w] /\ inflight = 0) => freed[w] = 1
  /\ cb_last.window # 0 => cb_last.depth1 = cb_last.depth0

\* The window's subclass was removed by an invocation nested in two others
\* for the same window, which are still in flight: nothing is dropped yet.
C22_Witness ==
  /\ Len(stack) = 2 /\ stack[1].window = 1 /\ stack[2].window = 1
  /\ subclass_removed[1] /\ recurse_depth[1] = 2 /\ freed[1] = 0
  /\ cb_last = [window |-> 1, depth0 |-> 2, depth1 |-> 2]

\* The outermost invocation returned after the subclass was removed inside
\* it, and the SubclassInput was dropped, once.
C22_Dropped ==
  /\ stack = <<>> /\ freed[1] = 1 /\ cb_last = [window |-> 1, depth0 |-> 0, depth1 |-> 0]

DpiResized ==
  /\ dpi_last.applied
  /\ ~dpi_last.in.fullscreen /\ ~dpi_last.in.maximized /\ ~dpi_last.in.dragging
OnTarget(rect) ==
  MonitorFromRect(dpi_last.in.monitors, rect, dpi_last.in.prefer) = dpi_last.new_dpi_monitor
TargetRect == get_monitor_rect(dpi_last.in.monitors, dpi_last.new_dpi_monitor)
IterationCap ==
  (TargetRect.right - TargetRect.left) + (TargetRect.bottom - TargetRect.top)

\* C21 as stated: the size offered is the old physical size taken to logical
\* at the old scale and back to physical at the new one, and the rectangle
\* applied lies fully on the monitor of the new scale.
C21_FullyOnMonitor ==
  DpiResized =>
    /\ dpi_last.offered
         = Rescale(dpi_last.old_size, dpi_last.old_scale_factor, dpi_last.in.new_dpi)
    /\ Within(dpi_last.new_outer_rect, TargetRect)

\* C21, amended: the size offered is the old physical size taken to logical at
\* the old scale and back to physical at the new one (800x600 at 1.0 gives
\* 1200x900 at 1.5); the rectangle applied has the size the callback left,
\* with the window's frame, and the monitor that shares the largest area with
\* it is the monitor of the window, unless the nudge loop made all the passes
\* it is allowed.
C21_OfferedSizeAndMonitor ==
  /\ Rescale(Size(800, 600), BASE_DPI, HIGH_DPI) = Size(1200, 900)
  /\ DpiResized =>
       LET r == dpi_last.new_outer_rect
       IN /\ dpi_last.offered
               = Rescale(dpi_last.old_size, dpi_last.old_scale_factor, dpi_last.in.new_dpi)
          /\ in_last.sent = <<ScaleFactorChanged(dpi_last.in.window, dpi_last.offered)>>
          /\ dpi_last.new_size
               = IF dpi_last.delivered /\ dpi_last.in.written # <<>>
                 THEN dpi_last.in.written[1] ELSE dpi_last.offered
          /\ r.right - r.left = dpi_last.new_size.width + 2 * dpi_last.in.frame
          /\ r.bottom - r.top = dpi_last.new_size.height + 2 * dpi_last.in.frame
          /\ OnTarget(r) \/ (dpi_last.nudged /\ dpi_last.iterations = IterationCap)

\* A window of 2x2 pixels went from 96 to 144 DPI: 3x3 was offered and kept,
\* and the rectangle applied is mostly, but not fully, on the monitor of the
\* new DPI.
C21_Witness ==
  /\ DpiResized /\ dpi_last.delivered /\ pc = "loop"
  /\ dpi_last.old_scale_factor = BASE_DPI /\ dpi_last.in.new_dpi = HIGH_DPI
  /\ dpi_last.old_size = Size(2, 2) /\ dpi_last.new_size = Size(3, 3)
  /\ OnTarget(dpi_last.new_outer_rect)
  /\ ~Within(dpi_last.new_outer_rect, TargetRect)

\* C28: when the rectangle worked out is on another monitor than the
\* window's, each pass of the loop moves it by one pixel along each axis on
\* which the two monitors share an edge, towards the window's monitor; the
\* loop ends at the first pass after which the rectangle is on the window's
\* monitor, and makes at most width + height of that monitor passes, also
\* when no edge is shared (and the rectangle does not move).
C28_BoundedNudge ==
  dpi_last.applied =>
    LET wrong == get_monitor_rect(dpi_last.in.monitors, dpi_last.wrong_monitor)
        dx == dpi_last.delta[1]
        dy == dpi_last.delta[2]
        At(k) == Shift(dpi_last.conservative_rect, k * dx, k * dy)
    IN IF dpi_last.nudged
       THEN /\ ~OnTarget(dpi_last.conservative_rect)
            /\ dx = -1 <=> wrong.left = TargetRect.right
            /\ dx = 1 <=> (wrong.right = TargetRect.left /\ wrong.left # TargetRect.right)
            /\ dy = 1 <=> wrong.bottom = TargetRect.top
            /\ dy = -1 <=> (wrong.top = TargetRect.bottom /\ wrong.bottom # TargetRect.top)
            /\ dx \in {-1, 0, 1} /\ dy \in {-1, 0, 1}
            /\ dpi_last.iterations <= IterationCap
            /\ dpi_last.new_outer_rect = At(dpi_last.iterations)
            /\ \A k \in 1..(dpi_last.iterations - 1) : ~OnTarget(At(k))
            /\ dpi_last.iterations < IterationCap => OnTarget(dpi_last.new_outer_rect)
       ELSE /\ OnTarget(dpi_last.conservative_rect)
            /\ dpi_last.iterations = 0
            /\ dpi_last.new_outer_rect = dpi_last.conservative_rect

\* The loop moved the rectangle for more than one pass and stopped, before
\* its last pass, with the rectangle on the window's monitor.
C28_Witness ==
  /\ dpi_last.applied /\ dpi_last.nudged /\ dpi_last.wrong_monitor # 0
  /\ dpi_last.iterations > 1 /\ dpi_last.iterations < IterationCap
  /\ OnTarget(dpi_last.new_outer_rect)

\* The two monitors share no edge: the loop made all its passes and the
\* rectangle is where it was, on the other monitor.
C28_NoSharedEdge ==
  /\ dpi_last.applied /\ dpi_last.nudged /\ dpi_last.wrong_monitor # 0
  /\ dpi_last.delta = <<0, 0>> /\ dpi_last.iterations = IterationCap
  /\ dpi_last.new_outer_rect = dpi_last.conservative_rect

\* C27: the main thread blocks only in GetMessageW: while it handles a
\* message (the wake for a user event included) it never waits on another
\* thread or on a channel, that is, it is never inside a recv() that has
\* nothing to return.
C27_BlocksOnlyInGetMessage == blocked_in = ""

\* The wake for a user event was dispatched before the sending thread put the
\* event in the channel: the main thread waits for that thread.
C27_WaitsForSender ==
  /\ blocked_in = "recv" /\ channel = <<>>
  /\ \E p \in Proxies : proxy_pc[p] # <<>>

\* C31: a paint message handled while the runner must buffer delivers no
\* event, starts no flush and leaves the runner as it was, and requests an
\* internal paint for the same window again.
C31_BufferedPaintDeferred ==
  [][(last'.kind = "WM_PAINT" /\ should_buffer(Machine(Quiet)))
       => /\ last'.events = <<>> /\ last'.posts = <<>>
          /\ runner_state' = runner_state /\ event_buffer' = event_buffer
          /\ control_flow' = control_flow /\ panic_error' = panic_error
          /\ last'.hwnd \in paint']_vars

\* C31, as the code has it: the same, except that the thread target's
\* handler requests its paint again only while the runner is handling
\* events; in Idle, that is while the callback handles RedrawEventsCleared,
\* the paint is validated and not requested again.
C31_BufferedPaintQuiet ==
  [][(last'.kind = "WM_PAINT" /\ should_buffer(Machine(Quiet)))
       => /\ last'.events = <<>> /\ last'.posts = <<>>
          /\ runner_state' = runner_state /\ event_buffer' = event_buffer
          /\ control_flow' = control_flow /\ panic_error' = panic_error
          /\ last'.hwnd \in paint'
               <=> (last'.hwnd # thread_msg_target \/ runner_state # "Idle")]_vars

\* A window's paint arrived while the callback handled an event of the
\* redraw part, and is pending again.
C31_Witness ==
  /\ last.kind = "WM_PAINT" /\ last.hwnd \in Range(owned_windows)
  /\ should_buffer(Machine(Quiet)) /\ runner_state = "HandlingRedrawEvents"
  /\ last.events = <<>> /\ last.hwnd \in paint

\* The thread target's paint arrived while the callback handled
\* RedrawEventsCleared, and is no longer pending.
C31_TargetPaintConsumed ==
  /\ last.kind = "WM_PAINT" /\ last.hwnd = thread_msg_target
  /\ should_buffer(Machine(Quiet)) /\ runner_state = "Idle"
  /\ thread_msg_target \notin paint

\* C32: the assertion in the thread target's WM_PAINT handler never fails:
\* whenever the loop dispatches that paint with the runner handling events
\* and not buffering, the runner is not in the middle of a redraw flush, and
\* the handler ends in a failure only if the application callback failed.
C32_AssertionHolds ==
  [][(last'.kind = "WM_PAINT" /\ last'.hwnd = thread_msg_target /\ pc = "loop")
       => /\ (handling_events(Machine(Quiet)) /\ ~should_buffer(Machine(Quiet)))
               => ~redrawing(Machine(Quiet))
          /\ pc' = "unwound" => failed']_vars

\* The thread target's paint was handled with the runner handling events: its
\* flush was the managing one and dispatched the pending paint of a window.
C32_Witness ==
  /\ last.kind = "WM_PAINT" /\ last.hwnd = thread_msg_target /\ pc = "loop"
  /\ Has(last.events, "MainEventsCleared") /\ Has(last.events, "RedrawRequested")
  /\ Has(last.events, "RedrawEventsCleared")
  /\ ~panic_error

\* C33: the boxed deadline of every wake-at request is taken back exactly
\* once: a box has been dropped once if its message was retrieved, not at
\* all while the message is still queued, and never twice; a pass that
\* retrieved no message leaves the record zeroed.
C33_BoxReclaimedOnce ==
  /\ \A b \in 1..Len(heap) :
       /\ heap[b].dropped <= 1
       /\ heap[b].dropped = 0
            <=> \E i \in 1..Len(wtq) : wtq[i] = WtMsg("WAIT_UNTIL", b)
  /\ wt_last.how = "empty" => wt_msg = WtMsg("", 0)

\* A pass retrieved no message after the thread had taken a box back.
C33_Witness ==
  /\ wt_last.how = "empty"
  /\ \E b \in 1..Len(heap) : heap[b].dropped = 1
  /\ wait_until_opt # <<>>

\* The functions handed to execute_in_thread so far, and those still posted.
Handed == {f \in [caller : Callers, n : 1..MaxCalls] : f.n <= exec_calls[f.caller]}
Runs(f) == Cardinality({i \in 1..Len(ran) : ran[i] = f})
Queued(f) == \E i \in 1..Len(exec_q) : exec_q[i] = f

C34_Skipped ==
  \E f \in exec_lost : f.caller # 0 /\ pc = "unwound" /\ Runs(f) = 0

\* ------------------------------------------------------------------ C35
\* The calls whose event is in the channel or was delivered, oldest first.
Enqueued == user_delivered \o channel

\* Bookkeeping of send_event: a call that returned Err carries its own event
\* and put nothing in the channel; a call that returned Ok put its event in
\* the channel once, and it is there or was delivered once; the events of one
\* sending thread are in the order of its calls.
C35_Ledger ==
  /\ \A i, j \in 1..Len(Enqueued) : i # j => Enqueued[i] # Enqueued[j]
  /\ \A i, j \in 1..Len(Enqueued) :
       (i < j /\ calls[Enqueued[i]].by = calls[Enqueued[j]].by) => Enqueued[i] < Enqueued[j]
  /\ \A id \in 1..Len(calls) :
       /\ calls[id].result = "Ok" <=> \E i \in 1..Len(Enqueued) : Enqueued[i] = id
       /\ calls[id].result = "Err" => calls[id].returned = calls[id].event

\* A wake message whose handling ends, entered with no failure of the callback
\* pending, takes the oldest event from the channel and delivers it, and
\* nothing else, as UserEvent.
C35_WakeDelivers ==
  (/\ ~panic_error
   /\ blocked_in' = ""
   /\ user_msgs' < user_msgs \/ blocked_in = "recv")
  => /\ channel # <<>>
     /\ channel' = Tail(channel)
     /\ user_delivered' = Append(user_delivered, Head(channel))
     /\ in_last'.sent = <<UserEvent(calls[Head(channel)].event)>>
     /\ UNCHANGED calls

C35_WakeSkipped ==
  /\ in_last.message = "USER_EVENT"
  /\ in_last.sent = <<>>
  /\ channel # <<>>
  /\ user_msgs = 0

\* ------------------------------------------------------------------ C36
\* C36: a button-down adds one to the window's capture counter; a button-up
\* takes one from it and stops at zero; the button-up leaves the capture where
\* it was unless the counter it leaves is zero, and then no window of the
\* thread has the capture; and the handler is not left waiting for the
\* WindowState lock inside the native release.
C36_CaptureCount ==
  LET w == in_last.window
      count0 == in_last.counts0[w]
      count == window_state[w].capture_count
  IN /\ \A v \in Windows : window_state[v].capture_count >= 0
     /\ in_last.message \in ButtonDown => count = count0 + 1
     /\ in_last.message \in ButtonUp =>
          /\ count = IF count0 > 0 THEN count0 - 1 ELSE 0
          /\ mouse_capture # in_last.capture0 => count = 0
          /\ count0 >= 2 => mouse_capture = in_last.capture0
          /\ count = 0 => mouse_capture \notin Windows
          /\ blocked_in = ""

\* The last of the buttons held on the window that has the capture was
\* released: the counter went from one to zero, the capture was released and
\* the capture-changed notification sent meanwhile got the lock.
C36_Witness ==
  /\ in_last.message \in ButtonUp
  /\ in_last.capture0 = in_last.window
  /\ in_last.counts0[in_last.window] = 1
  /\ window_state[in_last.window].capture_count = 0
  /\ mouse_capture = 0
  /\ blocked_in = ""

\* One of two buttons held was released: the window keeps the capture.
C36_FirstOfTwo ==
  /\ in_last.message \in ButtonUp
  /\ in_last.counts0[in_last.window] = 2
  /\ window_state[in_last.window].capture_count = 1
  /\ mouse_capture = in_last.window

\* A button was released on a window whose counter was zero already.
C36_Saturated ==
  /\ in_last.message \in ButtonUp
  /\ in_last.counts0[in_last.window] = 0
  /\ window_state[in_last.window].capture_count = 0

\* ------------------------------------------------------------------ C37
\* The places of the events of one type among those a handler sent.
Places(evs, type) == {i \in 1..Len(evs) : evs[i].type = type}

\* What one message does to the in-window flag of window w and which of
\* CursorEntered and CursorLeft it sends: a move sends one CursorEntered
\* exactly when the flag was clear, before its CursorMoved, and sets the flag;
\* a leave clears the flag and sends CursorLeft; nothing else sends
\* CursorEntered; the flag is cleared only by a message that sends CursorLeft.
EnterLeaveStep(w) ==
  LET msg == in_last'.message
      sent == in_last'.sent
      here == in_last'.window = w
      flag0 == window_state[w].in_window
      flag == window_state'[w].in_window
  IN /\ (here /\ msg = "WM_MOUSEMOVE") =>
          /\ Count(sent, "CursorEntered") = IF flag0 THEN 0 ELSE 1
          /\ flag
          /\ \A i \in Places(sent, "CursorEntered"), j \in Places(sent, "CursorMoved") : i < j
          /\ ~Has(sent, "CursorLeft")
          /\ \A i \in 1..Len(sent) : sent[i].window = w
     /\ (here /\ msg = "WM_MOUSELEAVE") => ~flag /\ sent = <<CursorLeft(w)>>
     /\ (here /\ Has(sent, "CursorEntered")) => (msg = "WM_MOUSEMOVE" /\ ~flag0)
     /\ (flag0 /\ ~flag) => (here /\ Has(sent, "CursorLeft"))
     /\ (~flag0 /\ flag) => (here /\ Has(sent, "CursorEntered"))

\* C37: a pointer move sends CursorEntered if and only if the window's
\* in-window flag was clear, and before the CursorMoved of the same message;
\* every move sets the flag and every leave clears it and sends CursorLeft; the
\* flag is set exactly from a CursorEntered to the next CursorLeft of the
\* window, so two CursorEntered of a window have a CursorLeft between them.
C37_EnterLeave == [][\A w \in Windows : EnterLeaveStep(w)]_vars

\* A move entered the window again after a leave, and sent CursorEntered and
\* then CursorMoved.
C37_Witness ==
  /\ in_last.message = "WM_MOUSEMOVE"
  /\ ~in_last.ws0.in_window
  /\ in_last.ws0.last_position # <<>>
  /\ Places(in_last.sent, "CursorEntered") = {1}
  /\ Has(in_last.sent, "CursorMoved")
  /\ window_state[in_last.window].in_window

\* ------------------------------------------------------------------ C38
\* The ModifiersChanged events among those the latest handler sent, and the
\* payload of the last of them.
ModsSent == Places(in_last'.sent, "ModifiersChanged")
LastModsSent == in_last'.sent[CHOOSE i \in ModsSent : \A j \in ModsSent : j <= i].data

\* After a message the stored modifiers of every window are the payload of the
\* latest ModifiersChanged sent for it, or what they were when none was sent.
StoredIsLastSent ==
  /\ \A i \in ModsSent : in_last'.sent[i].window = in_last'.window
  /\ \A w \in Windows :
       window_state'[w].modifiers_state =
         IF w = in_last'.window /\ ModsSent # {} THEN LastModsSent
         ELSE window_state[w].modifiers_state

\* C38 as stated: the stored modifiers are those of the latest ModifiersChanged
\* of the window, and a ModifiersChanged is sent only when its payload is not
\* what was stored.
C38_OnlyWhenChanged ==
  [][/\ StoredIsLastSent
     /\ \A i \in ModsSent :
          in_last'.sent[i].data # window_state[in_last'.window].modifiers_state]_vars

\* C38, amended: the stored modifiers are those of the latest ModifiersChanged
\* of the window; a message other than the loss of focus sends ModifiersChanged
\* only when the modifiers held are not the stored ones, and a key message or
\* the gain of focus then always does; the loss of focus stores the empty
\* state and sends ModifiersChanged with it whatever was stored.  (A handler
\* entered while a failure of the callback is pending does nothing.)
C38_StoredIsLastSent ==
  [][/\ StoredIsLastSent
     /\ Cardinality(ModsSent) <= 1
     /\ in_last'.message # "WM_KILLFOCUS" =>
          /\ \A i \in ModsSent :
               /\ in_last'.sent[i].data = in_last'.input.modifiers
               /\ in_last'.sent[i].data # window_state[in_last'.window].modifiers_state
          /\ (/\ in_last'.message \in KeyMessages \cup {"WM_SETFOCUS"}
              /\ ~panic_error
              /\ in_last'.input.modifiers # window_state[in_last'.window].modifiers_state)
               => ModsSent = {1}
     /\ (in_last'.message = "WM_KILLFOCUS" /\ ~panic_error) =>
          /\ in_last'.sent = <<ModifiersChanged(in_last'.window, 0),
                               Focused(in_last'.window, FALSE)>>
          /\ window_state'[in_last'.window].modifiers_state = 0]_vars

\* A window that got the focus with a modifier held lost it with the modifier
\* still stored, and ModifiersChanged told of the empty state.
C38_Witness ==
  /\ in_last.message = "WM_KILLFOCUS"
  /\ in_last.ws0.modifiers_state = 1
  /\ window_state[in_last.window].modifiers_state = 0
  /\ Has(in_last.sent, "ModifiersChanged")

\* A window lost the focus with no modifier stored, and ModifiersChanged was
\* sent all the same.
C38_Unchanged ==
  /\ in_last.message = "WM_KILLFOCUS"
  /\ in_last.ws0.modifiers_state = 0
  /\ in_last.sent[1] = ModifiersChanged(in_last.window, 0)

\* ------------------------------------------------------------------ C39
\* While run_return is in its loop with the control flow Exit, the runner is
\* handling events (the exit test made after the dispatch that left it idle has
\* ended the loop), and a message is there to be retrieved that carries the
\* cycle on: a posted one, or the paint of the thread event target.
ExitPending ==
  (pc = "loop" /\ control_flow.kind = "Exit") =>
    /\ handling_events(Machine(Quiet))
    /\ queue # <<>> \/ thread_msg_target \in paint

\* C39: once the control flow is Exit, run_return leaves its loop although the
\* operating system posts nothing more; the loop is never left waiting with
\* the control flow Exit and the runner idle, and until it ends the paint of
\* the thread event target, or a message that will request it, is pending.
C39_ExitLeavesLoop ==
  /\ []ExitPending
  /\ (pc = "loop" /\ control_flow.kind = "Exit") ~> (pc # "loop")

\* The callback chose Exit while a message was handled, and the paint of the
\* thread event target completed the cycle and ended run_return.
C39_Witness ==
  /\ pc = "returned"
  /\ last.kind = "WM_PAINT" /\ last.hwnd = thread_msg_target
  /\ Has(last.events, "RedrawEventsCleared")
  /\ Last(last.events) = LoopDestroyed

\* ---------------------------------------------------------------------------
\* The locks of the X11 backend, thread by thread.  Each operation is the
\* sequence of its lock, unlock and access steps in source order; threads
\* interleave step by step.  The mutexes are parking_lot's: not reentrant,
\* and a guard is released where it goes out of scope.
\* ---------------------------------------------------------------------------

XThreads == 1..NumXThreads
\* the singleton's mutex, the error slot of the singleton's connection, and
\* the slot of a connection some component made with XConnection::new
BackendLock == <<"X11_BACKEND", 0>>
SingletonSlot == <<"latest_error", 1>>
OtherSlot == <<"latest_error", 2>>
XSlots == {SingletonSlot, OtherSlot}
XLocks == {BackendLock} \cup XSlots
\* the window-state mutexes belong to the windows of the Windows event loop
WindowStateLocks == {<<"window_state", w>> : w \in Windows}

XOp(op, on) == [op |-> op, on |-> on]

\* XConnection::new as the lazy static's initialiser runs it
XConnection_new_ops(outcome) == IF outcome = "LibraryOpenError" THEN <<XOp("init_done", <<"Err">>)>> ELSE <<XOp("XInitThreads", <<>>), XOp("XSetErrorHandler", <<>>), XOp("XOpenDisplay", <<>>), XOp("init_done", IF outcome = "Ok" THEN <<"Ok">> ELSE <<"Err">>)>>

\* what x_error_callback does once it sees Ok(xconn) under the guard
x_error_callback_ok_ops == <<XOp("XGetErrorText", <<>>), XOp("lock", SingletonSlot), XOp("write", SingletonSlot), XOp("unlock", SingletonSlot)>>

x_error_callback_ops == <<XOp("deref", BackendLock), XOp("lock", BackendLock), XOp("if_ok", BackendLock), XOp("unlock", BackendLock)>>

check_errors_ops_backend_inside(slot) == <<XOp("lock", slot), XOp("deref", BackendLock), XOp("lock", BackendLock), XOp("read", BackendLock), XOp("unlock", BackendLock), XOp("take", slot), XOp("unlock", slot)>>

\* self.latest_error.lock().take()
check_errors_ops(slot) == <<XOp("lock", slot), XOp("take", slot), XOp("unlock", slot)>>

\* *self.latest_error.lock() = None
ignore_error_ops(slot) == <<XOp("lock", slot), XOp("write", slot), XOp("unlock", slot)>>

xlib_xconnection_ops == <<XOp("deref", BackendLock), XOp("lock", BackendLock), XOp("read", BackendLock), XOp("unlock", BackendLock)>>

XIdle(t) == xt_todo[t] = <<>> /\ \A l \in XLocks : xlock[l] # t
XHeld(t) == {l \in XLocks : xlock[l] = t}

\* a thread waits: for a mutex another guard holds, or for the Once that
\* another thread is running
XBlocked(t) ==
  /\ xt_todo[t] # <<>>
  /\ \/ Head(xt_todo[t]).op = "lock" /\ xlock[Head(xt_todo[t]).on] # 0
     \/ Head(xt_todo[t]).op = "deref" /\ x_once = "running"

XStart(t, ops) ==
  /\ XIdle(t)
  /\ xt_todo' = [xt_todo EXCEPT ![t] = ops]
  /\ UNCHANGED <<xlock, x_once, x_installed, x_ok>>
  /\ UNCHANGED <<X11_BACKEND, error_handler, display, arcs, latest_error, raised_since, x_last>>
  /\ UNCHANGED <<LoopVars, InputVars>>

\* Xlib calls the installed handler on a thread that is inside an Xlib call
XErrorCallbackStart ==
  \E t \in XThreads : x_installed /\ XStart(t, x_error_callback_ops)

\* a component polls a connection it holds: the singleton's, which exists
\* once the lazy static is Ok, or one of its own
CheckErrorsStart ==
  \E t \in XThreads, slot \in XSlots :
    /\ slot = SingletonSlot => x_once = "done" /\ x_ok
    /\ XStart(t, check_errors_ops(slot))

IgnoreErrorStart ==
  \E t \in XThreads, slot \in XSlots :
    /\ slot = SingletonSlot => x_once = "done" /\ x_ok
    /\ XStart(t, ignore_error_ops(slot))

XlibXconnectionStart ==
  \E t \in XThreads : x_once \in {"new", "running", "done"} /\ XStart(t, xlib_xconnection_ops)

\* one step of one thread
XThreadStep ==
  \E t \in XThreads, outcome \in {"LibraryOpenError", "XOpenDisplayFailed", "Ok"} :
    /\ xt_todo[t] # <<>>
    /\ ~XBlocked(t)
    /\ LET o == Head(xt_todo[t])
           rest == Tail(xt_todo[t])
       IN  /\ xt_todo' = [xt_todo EXCEPT ![t] =
                 CASE o.op = "deref" /\ x_once = "new" -> XConnection_new_ops(outcome) \o rest
                   [] o.op = "if_ok" /\ x_ok -> x_error_callback_ok_ops \o rest
                   [] OTHER -> rest]
           /\ xlock' = CASE o.op = "lock" -> [xlock EXCEPT ![o.on] = t]
                         [] o.op = "unlock" -> [xlock EXCEPT ![o.on] = 0]
                         [] OTHER -> xlock
           /\ x_once' = CASE o.op = "deref" /\ x_once = "new" -> "running"
                          [] o.op = "init_done" -> "done"
                          [] OTHER -> x_once
           /\ x_installed' = (x_installed \/ o.op = "XSetErrorHandler")
           /\ x_ok' = IF o.op = "init_done" THEN o.on = <<"Ok">> ELSE x_ok
    /\ UNCHANGED <<X11_BACKEND, error_handler, display, arcs, latest_error, raised_since, x_last>>
    /\ UNCHANGED <<LoopVars, InputVars>>

LockNext ==
  \/ XErrorCallbackStart
  \/ CheckErrorsStart
  \/ IgnoreErrorStart
  \/ XlibXconnectionStart
  \/ XThreadStep

LockSpec == Init /\ [][LockNext]_vars

\* every touch of a mutex's content happens under that mutex's guard
RaceFree ==
  \A t \in XThreads :
    (xt_todo[t] # <<>> /\ Head(xt_todo[t]).op \in {"read", "write", "take", "if_ok"})
      => xlock[Head(xt_todo[t]).on] = t

\* while a thread has steps left, some thread can take a step
DeadlockFree ==
  (\E t \in XThreads : xt_todo[t] # <<>>)
    => \E t \in XThreads : xt_todo[t] # <<>> /\ ~XBlocked(t)

\* the singleton's mutex is never asked for under a slot guard, no thread
\* holds two slots, and no guard outlives its operation
LockOrder ==
  \A t \in XThreads :
    /\ (xt_todo[t] # <<>> /\ Head(xt_todo[t]).on = BackendLock
          /\ Head(xt_todo[t]).op \in {"lock", "deref"})
         => XHeld(t) \cap XSlots = {}
    /\ Cardinality(XHeld(t) \cap XSlots) <= 1
    /\ xt_todo[t] = <<>> => XHeld(t) = {}
    /\ (OtherSlot \in XHeld(t) \/ x_once # "done") => SingletonSlot \notin XHeld(t)

\* the mutexes of the X11 operations are none of the window-state mutexes
SlotIndependent ==
  /\ XLocks \cap WindowStateLocks = {}
  /\ \A t \in XThreads : \A i \in 1..Len(xt_todo[t]) :
       xt_todo[t][i].op \in {"lock", "unlock"} => xt_todo[t][i].on \in XLocks

\* C40: under every interleaving of the threads, the error slot and the
\* singleton are touched only under their own guards, some thread can always
\* go on while any has work left, the singleton's mutex is never acquired
\* under a slot guard (the handler takes the singleton's and then the slot's,
\* check_errors and ignore_error the slot's only, xlib_xconnection the
\* singleton's only), and no operation takes a window-state mutex.
C40_LocksRaceAndDeadlockFree ==
  /\ RaceFree
  /\ DeadlockFree
  /\ LockOrder
  /\ SlotIndependent

\* the handler holds the singleton's guard and waits for the slot that a
\* polling thread holds, while a third thread waits for the singleton
C40_Witness ==
  \E t, u, v \in XThreads :
    /\ xlock[BackendLock] = t /\ XBlocked(t) /\ Head(xt_todo[t]).on = SingletonSlot
    /\ xlock[SingletonSlot] = u /\ Head(xt_todo[u]).op = "take"
    /\ v # t /\ XBlocked(v) /\ Head(xt_todo[v]) = XOp("lock", BackendLock)

====
